---- MODULE Spec2Model ----
(***************************************************************************)
(* The aggregation pipeline of ecommerce_data_processor.py: eight raw CSV  *)
(* tables are loaded, seven create_* aggregators derive summary tables,    *)
(* and save_to_csv writes each of them to its own file.                    *)
(*                                                                         *)
(* Representation.                                                         *)
(*   cell       a set with at most one element: {} is NaN / NaT / None,    *)
(*              {v} is the value v.                                        *)
(*   float      a pair <<n, d>>, the rational n/d (d > 0); <<1, 0>> is     *)
(*              +inf, the result of dividing a positive number by zero.    *)
(*              Money is kept in hundredths: 50.00 is <<5000, 100>>.       *)
(*   timestamp  seconds since the first instant of EpochDate.              *)
(*   DataFrame  [cols |-> set of column names, rows |-> sequence of rows], *)
(*              a row being a function from cols to cells.                 *)
(*   a table variable (a raw file, a loaded table, an aggregator's result) *)
(*              is again an option: {} when absent / None, {df} else.      *)
(***************************************************************************)
EXTENDS Integers, Sequences, FiniteSets, TLC

VARIABLES
    raw,        \* raw_data/: table name -> {} (no file) or {DataFrame as stored}
    today,      \* datetime.now().date(), in days since EpochDate
    data,       \* main()'s dict `data`: table name -> {} (None) or {DataFrame}
    called,     \* the create_* functions that have returned in this run
    results,    \* output name -> {} (None) or {DataFrame}: what create_* returned
    pc,         \* where main() is
    attempts,   \* the save_to_csv calls of this run, in order: [file, outcome]
    files,      \* aggregated_data/: output name -> {} (no file) or {content}
    failures,   \* the write failures the environment may still inject
    runs,       \* the runs started so far
    prev        \* the runs that ended before this one: raw, today, pc, results, files

vars == <<raw, today, data, called, results, pc, attempts, files, failures, runs, prev>>

-----------------------------------------------------------------------------
(* Cells *)

NaN == {}

notna(c) == c # {}

isna(c) == c = {}

V(c) == CHOOSE v \in c : TRUE

\* Series.fillna(value)
fillna(c, value) == IF isna(c) THEN {value} ELSE c

-----------------------------------------------------------------------------
(* Floats: exact rationals and +inf *)

inf == <<1, 0>>

IsInf(x) == x[2] = 0

IsFinite(x) == x[2] > 0

\* an integer count as a float
Flt(n) == <<n, 1>>

\* a money amount given in hundredths
Money(h) == <<h, 100>>

FAdd(x, y) == IF x[2] = y[2] THEN <<x[1] + y[1], x[2]>>
              ELSE <<x[1] * y[2] + y[1] * x[2], x[2] * y[2]>>

FMul(x, y) == <<x[1] * y[1], x[2] * y[2]>>

FEq(x, y) == x[1] * y[2] = y[1] * x[2] /\ (x[2] = 0) = (y[2] = 0)

FLt(x, y) == IF IsInf(y) THEN IsFinite(x)
             ELSE IsFinite(x) /\ x[1] * y[2] < y[1] * x[2]

\* Series / Series on non-negative operands, cell-wise: a missing operand or
\* 0/0 gives NaN, x/0 with x > 0 gives inf (pandas raises no ZeroDivisionError)
TrueDiv(a, b) ==
    IF isna(a) \/ isna(b) THEN NaN
    ELSE LET x == V(a)
             y == V(b)
         IN  IF IsInf(x) /\ IsInf(y) THEN NaN
             ELSE IF IsInf(x) THEN {inf}
             ELSE IF IsInf(y) THEN {<<0, 1>>}
             ELSE IF y[1] = 0 THEN (IF x[1] = 0 THEN NaN ELSE {inf})
             ELSE {<<x[1] * y[2], x[2] * y[1]>>}

\* Series * 100
Times100(a) == IF isna(a) THEN NaN
               ELSE IF IsInf(V(a)) THEN a
               ELSE {FMul(V(a), Flt(100))}

\* round(2) of one float: to the nearest hundredth, ties to the even one
Round2Flt(x) ==
    IF IsInf(x) THEN x
    ELSE LET n == x[1] * 100
             q == n \div x[2]
             r == n % x[2]
         IN  IF 2 * r < x[2] THEN <<q, 100>>
             ELSE IF 2 * r > x[2] THEN <<q + 1, 100>>
             ELSE IF q % 2 = 0 THEN <<q, 100>>
             ELSE <<q + 1, 100>>

\* Series.round(2), cell-wise
round2(c) == IF isna(c) THEN NaN ELSE {Round2Flt(V(c))}

-----------------------------------------------------------------------------
(* Timestamps and Config.DATE_FORMAT *)

SecondsPerDay == 24 * 60 * 60

\* the calendar date of timestamp 0
EpochDate == [day |-> 30, month |-> 1, year |-> 2026]

DaysInMonth(m, y) ==
    IF m = 2 THEN (IF y % 4 = 0 /\ (y % 100 # 0 \/ y % 400 = 0) THEN 29 ELSE 28)
    ELSE IF m \in {4, 6, 9, 11} THEN 30
    ELSE 31

RECURSIVE AddDays(_, _)
AddDays(date, n) ==
    IF n = 0 THEN date
    ELSE IF date.day < DaysInMonth(date.month, date.year)
         THEN AddDays([date EXCEPT !.day = @ + 1], n - 1)
    ELSE IF date.month < 12
         THEN AddDays([date EXCEPT !.day = 1, !.month = @ + 1], n - 1)
    ELSE AddDays([day |-> 1, month |-> 1, year |-> date.year + 1], n - 1)

\* Timestamp.normalize(): the day a timestamp falls on (floor, also before the epoch)
DayOf(t) == t \div SecondsPerDay

\* Series.dt.strftime('%d/%m/%Y') on one cell: the text "DD/MM/YYYY" as the
\* tuple <<DD, MM, YYYY>> (ordered as the text is: day first); NaT gives NaN
strftime(c) ==
    IF isna(c) THEN NaN
    ELSE LET d == AddDays(EpochDate, DayOf(V(c)))
         IN  {<<d.day, d.month, d.year>>}

\* what a raw time cell holds when its text is not a timestamp
BadTime == -1

\* pd.to_datetime(errors='coerce') on one cell
to_datetime(c) == IF isna(c) \/ c = {BadTime} THEN NaN ELSE c

-----------------------------------------------------------------------------
(* Text order: Python compares str values by code point.  StrOrder lists the
   texts of the model's key columns in that order. *)

StrOrder == <<"Hat", "NO_COUPON", "SAVE10", "Shirt", "WELCOME", "u1", "u2", "u3">>

StrRank(s) == CHOOSE i \in 1..Len(StrOrder) : StrOrder[i] = s

\* the sort key of a text cell; nulls sort last
LastRank == Len(StrOrder) + 1

TextKey(c) == IF isna(c) THEN LastRank ELSE StrRank(V(c))

\* A URL path is the tuple of its segments: "/product/hat" is
\* <<"product", "hat">>, "/product/" is <<"product", "">>, "/product" is
\* <<"product">>.  PathOrder lists the paths of the model in text order.
PathOrder == << <<"cart">>, <<"home">>, <<"product">>, <<"product", "hat">> >>

PathKey(c) == IF isna(c) THEN Len(PathOrder) + 1
              ELSE CHOOSE i \in 1..Len(PathOrder) : PathOrder[i] = V(c)

\* Series.str.contains('/product/', na=False) on one cell: the text holds
\* "/product/" iff a segment other than the last is exactly "product"
contains_product(c) ==
    /\ notna(c)
    /\ \E i \in 1..(Len(V(c)) - 1) : V(c)[i] = "product"

\* integer tuples of equal length, compared position by position
RECURSIVE LexLt(_, _)
LexLt(a, b) ==
    IF a = <<>> THEN FALSE
    ELSE IF Head(a) # Head(b) THEN Head(a) < Head(b)
    ELSE LexLt(Tail(a), Tail(b))

\* a stable sort: the indexes 1..n of the sort keys ks (integer tuples), in
\* ascending key order, equal keys in their given order
RECURSIVE InsertIndex(_, _, _)
InsertIndex(i, s, ks) ==
    IF s = <<>> THEN <<i>>
    ELSE IF LexLt(ks[i], ks[Head(s)]) THEN <<i>> \o s
    ELSE <<Head(s)>> \o InsertIndex(i, Tail(s), ks)

RECURSIVE SortedIndexes(_, _)
SortedIndexes(n, ks) ==
    IF n = 0 THEN <<>>
    ELSE InsertIndex(n, SortedIndexes(n - 1, ks), ks)

StableSort(s, ks) ==
    LET p == SortedIndexes(Len(s), ks)
    IN  [i \in 1..Len(s) |-> s[p[i]]]

\* the elements of a finite set as a sequence, ascending in rank (a function
\* from the set to distinct integer tuples)
RECURSIVE SetToSortedSeq(_, _)
SetToSortedSeq(S, rank) ==
    IF S = {} THEN <<>>
    ELSE LET m == CHOOSE x \in S : \A y \in S \ {x} : LexLt(rank[x], rank[y])
         IN  <<m>> \o SetToSortedSeq(S \ {m}, rank)

-----------------------------------------------------------------------------
(* DataFrames *)

DataFrame(cols, rows) == [cols |-> cols, rows |-> rows]

\* DataFrame.empty
empty(df) == Len(df.rows) = 0 \/ df.cols = {}

RowSet(df) == {df.rows[i] : i \in 1..Len(df.rows)}

\* df[c] = f(row): adds the column, or overwrites it, in place
SetColumn(df, c, F(_)) ==
    [cols |-> df.cols \cup {c},
     rows |-> [i \in 1..Len(df.rows) |->
                 [k \in df.cols \cup {c} |->
                     IF k = c THEN F(df.rows[i]) ELSE df.rows[i][k]]]]

\* df[[c1, c2, ...]]
Project(df, cs) ==
    [cols |-> cs,
     rows |-> [i \in 1..Len(df.rows) |-> [k \in cs |-> df.rows[i][k]]]]

\* df[mask]
Filter(df, P(_)) == [cols |-> df.cols, rows |-> SelectSeq(df.rows, P)]

\* df.rename(columns={old: new})
Rename(df, old, new) ==
    [cols |-> (df.cols \ {old}) \cup {new},
     rows |-> [i \in 1..Len(df.rows) |->
                 [k \in (df.cols \ {old}) \cup {new} |->
                     IF k = new THEN df.rows[i][old] ELSE df.rows[i][k]]]]

\* left.merge(right, on=on, how='left') when `on` is the only shared column:
\* every left row is kept, once per matching right row (null keys match each
\* other), in the left order; without a match the right columns are NaN
RECURSIVE MergeRows(_, _, _)
MergeRows(lrows, right, on) ==
    IF lrows = <<>> THEN <<>>
    ELSE LET l == Head(lrows)
             m == SelectSeq(right.rows, LAMBDA r : r[on] = l[on])
             extra == right.cols \ {on}
             joined ==
                 IF m = <<>> THEN << l @@ [c \in extra |-> NaN] >>
                 ELSE [i \in 1..Len(m) |-> l @@ [c \in extra |-> m[i][c]]]
         IN  joined \o MergeRows(Tail(lrows), right, on)

\* a join that keeps one row per left row: the first match only
merge_left_first_match(left, right, on) ==
    [cols |-> left.cols \cup right.cols,
     rows |-> [i \in 1..Len(left.rows) |->
                 MergeRows(<<left.rows[i]>>, right, on)[1]]]

merge_left(left, right, on) ==
    [cols |-> left.cols \cup right.cols, rows |-> MergeRows(left.rows, right, on)]

\* df.sort_values(...): stable, by the integer tuple SortKey gives each row
sort_values(df, SortKey(_)) ==
    [cols |-> df.cols,
     rows |-> StableSort(df.rows, [i \in 1..Len(df.rows) |-> SortKey(df.rows[i])])]

(* groupby: the key of a row is its cells in the key columns; rows with a null
   key cell belong to no group (dropna) *)
KeyOf(r, keys) == [k \in keys |-> r[k]]

HasKey(r, keys) == \A k \in keys : notna(r[k])

GroupKeys(df, keys) ==
    {KeyOf(r, keys) : r \in {x \in RowSet(df) : HasKey(x, keys)}}

\* a grouping that hands every group all the rows of the table
GroupOfAllRows(df, keys, key) == df.rows

Group(df, keys, key) == SelectSeq(df.rows, LAMBDA r : KeyOf(r, keys) = key)

\* a Series is a function from index keys to cells; reindexing gives NaN
At(series, key) == IF key \in DOMAIN series THEN series[key] ELSE NaN

\* aggregations over the rows g of one group; null cells are skipped
RECURSIVE SumOf(_, _)
SumOf(g, c) ==
    IF g = <<>> THEN <<0, 1>>
    ELSE IF isna(Head(g)[c]) THEN SumOf(Tail(g), c)
    ELSE FAdd(V(Head(g)[c]), SumOf(Tail(g), c))

count(g, c) == Len(SelectSeq(g, LAMBDA r : notna(r[c])))

nunique(g, c) == Cardinality({g[i][c] : i \in 1..Len(g)} \ {NaN})

mean(g, c) == TrueDiv({SumOf(g, c)}, {Flt(count(g, c))})

\* min / max of an integer-valued column (timestamps); NaT when all are null
MinOf(g, c) ==
    LET vs == {V(g[i][c]) : i \in {j \in 1..Len(g) : notna(g[j][c])}}
    IN  IF vs = {} THEN NaN ELSE {CHOOSE v \in vs : \A w \in vs : v <= w}

MaxOf(g, c) ==
    LET vs == {V(g[i][c]) : i \in {j \in 1..Len(g) : notna(g[j][c])}}
    IN  IF vs = {} THEN NaN ELSE {CHOOSE v \in vs : \A w \in vs : v >= w}

-----------------------------------------------------------------------------
(* Loading *)

Tables == {"users", "sessions", "orders", "order_items", "cart",
           "pageviews", "scrolls", "clicks"}

\* parse_dates(df, date_columns)
parse_dates(df, date_columns) ==
    [cols |-> df.cols,
     rows |-> [i \in 1..Len(df.rows) |->
                 [c \in df.cols |->
                     IF c \in date_columns THEN to_datetime(df.rows[i][c])
                     ELSE df.rows[i][c]]]]

\* load_csv_safe(filename): the stored table, or None when there is no file;
\* columns missing from required_columns are logged only
load_csv_safe(store, t) == store[t]

\* load_all_raw_data(): every table but users has its time column parsed
load_all_raw_data(store) ==
    [t \in Tables |->
        IF load_csv_safe(store, t) = {} THEN {}
        ELSE IF t = "users" THEN load_csv_safe(store, t)
        ELSE {parse_dates(V(load_csv_safe(store, t)), {"time"})}]

-----------------------------------------------------------------------------
(* Raw tables as generate_sample_data.py lays them out (the columns the
   pipeline reads or passes on), with the spec's three-session scenario:
   s1 converts for 50.00, s2 does not convert, s3 converts for 30.00. *)

\* the timestamp `sec` seconds into day `day`
T(day, sec) == day * SecondsPerDay + sec

SampleUsers ==
    DataFrame({"user_id", "has_purchase_last_year", "has_purchase_last_qtr"},
      << [user_id |-> {"u1"}, has_purchase_last_year |-> {0},
          has_purchase_last_qtr |-> {0}],
         [user_id |-> {"u2"}, has_purchase_last_year |-> {1},
          has_purchase_last_qtr |-> {0}] >>)

SampleSessions ==
    DataFrame({"user_id", "session_id", "time", "platform", "device_type",
               "country", "landing_page", "utm_source", "utm_medium",
               "utm_campaign"},
      << [user_id |-> {"u1"}, session_id |-> {"s1"}, time |-> {T(0, 600)},
          platform |-> {"web"}, device_type |-> {"mobile"}, country |-> {"US"},
          landing_page |-> {"/home"}, utm_source |-> {"google"},
          utm_medium |-> {"cpc"}, utm_campaign |-> {"spring"}],
         [user_id |-> {"u2"}, session_id |-> {"s2"}, time |-> {T(0, 900)},
          platform |-> {"web"}, device_type |-> {"desktop"}, country |-> {"US"},
          landing_page |-> {"/home"}, utm_source |-> NaN,
          utm_medium |-> NaN, utm_campaign |-> NaN],
         [user_id |-> {"u2"}, session_id |-> {"s3"}, time |-> {T(0, 1200)},
          platform |-> {"web"}, device_type |-> {"desktop"}, country |-> {"IN"},
          landing_page |-> {"/cart"}, utm_source |-> {"google"},
          utm_medium |-> NaN, utm_campaign |-> NaN] >>)

SampleOrders ==
    DataFrame({"order_id", "user_id", "session_id", "time", "total_price",
               "discount", "discount_coupon_code"},
      << [order_id |-> {"o1"}, user_id |-> {"u1"}, session_id |-> {"s1"},
          time |-> {T(0, 660)}, total_price |-> {Money(5000)},
          discount |-> {Money(500)}, discount_coupon_code |-> {"SAVE10"}],
         [order_id |-> {"o2"}, user_id |-> {"u2"}, session_id |-> {"s3"},
          time |-> {T(0, 1200)}, total_price |-> {Money(3000)},
          discount |-> {Money(0)}, discount_coupon_code |-> NaN] >>)

SampleOrderItems ==
    DataFrame({"event_id", "order_id", "time", "product_name", "product_price",
               "product_qty"},
      << [event_id |-> {"i1"}, order_id |-> {"o1"}, time |-> {T(0, 660)},
          product_name |-> {"Hat"}, product_price |-> {Money(2500)},
          product_qty |-> {Flt(2)}],
         [event_id |-> {"i2"}, order_id |-> {"o2"}, time |-> {T(0, 1200)},
          product_name |-> {"Shirt"}, product_price |-> {Money(3000)},
          product_qty |-> {Flt(1)}] >>)

SampleCart ==
    DataFrame({"event_id", "session_id", "time", "product_name"},
      << [event_id |-> {"c1"}, session_id |-> {"s1"}, time |-> {T(0, 630)},
          product_name |-> {"Hat"}],
         [event_id |-> {"c2"}, session_id |-> {"s2"}, time |-> {T(0, 900)},
          product_name |-> {"Hat"}] >>)

SamplePageviews ==
    DataFrame({"event_id", "user_id", "session_id", "time", "path"},
      << [event_id |-> {"p1"}, user_id |-> {"u1"}, session_id |-> {"s1"},
          time |-> {T(0, 600)}, path |-> {<<"home">>}],
         [event_id |-> {"p2"}, user_id |-> {"u1"}, session_id |-> {"s1"},
          time |-> {T(0, 615)}, path |-> {<<"product", "hat">>}],
         [event_id |-> {"p3"}, user_id |-> {"u2"}, session_id |-> {"s2"},
          time |-> {BadTime}, path |-> {<<"home">>}] >>)

SampleScrolls ==
    DataFrame({"event_id", "session_id", "time", "path", "scroll_percent"},
      << [event_id |-> {"r1"}, session_id |-> {"s1"}, time |-> {T(0, 605)},
          path |-> {<<"home">>}, scroll_percent |-> {Flt(50)}],
         [event_id |-> {"r2"}, session_id |-> {"s1"}, time |-> {T(0, 610)},
          path |-> {<<"home">>}, scroll_percent |-> {Flt(75)}] >>)

SampleClicks ==
    DataFrame({"event_id", "session_id", "time", "path"},
      << [event_id |-> {"k1"}, session_id |-> {"s1"}, time |-> {T(0, 612)},
          path |-> {<<"product", "hat">>}] >>)

Sample ==
    [users |-> SampleUsers, sessions |-> SampleSessions, orders |-> SampleOrders,
     order_items |-> SampleOrderItems, cart |-> SampleCart,
     pageviews |-> SamplePageviews, scrolls |-> SampleScrolls,
     clicks |-> SampleClicks]

\* a raw table stored without one of its columns
DropColumn(df, c) == Project(df, df.cols \ {c})

-----------------------------------------------------------------------------
(* Shared by the aggregators *)

\* df.groupby(by)[...].agg(F): a Series indexed by the group keys
GroupAgg(df, by, F(_)) == [k \in GroupKeys(df, by) |-> F(Group(df, by, k))]

\* an integer cell (a count) as a float cell
AsFlt(c) == IF isna(c) THEN NaN ELSE {Flt(V(c))}

\* a create_* call ends in one of three ways: it returns a DataFrame, it
\* returns None, or it raises (a KeyError for a column the table lacks).
\* `data` is the dict of loaded tables as the call leaves it.
Returned(df, d) == [raised |-> FALSE, result |-> {df}, data |-> d]

ReturnedNone(d) == [raised |-> FALSE, result |-> {}, data |-> d]

Raised(d) == [raised |-> TRUE, result |-> {}, data |-> d]

\* df[...] = ... on a loaded table writes through to the caller's dict
Store(d, t, df) == [d EXCEPT ![t] = {df}]

\* a 'date' derivation that also normalises the table's 'time' to midnight
WithDateTruncatingTime(df) ==
    SetColumn(SetColumn(df, "date", LAMBDA r : strftime(r["time"])), "time",
              LAMBDA r : IF isna(r["time"]) THEN NaN
                         ELSE {(V(r["time"]) \div SecondsPerDay) * SecondsPerDay})

\* the 'date' column every aggregator derives: time.dt.strftime(DATE_FORMAT)
WithDate(df) == SetColumn(df, "date", LAMBDA r : strftime(r["time"]))

\* the sort key of a 'date' cell
DateKey(c) == IF isna(c) THEN <<99, 99, 9999>> ELSE V(c)

-----------------------------------------------------------------------------
(* Aggregation 1: daily_business_metrics *)

\* a frame built on the keys all the Series share (an inner alignment)
FrameOfSharedKeys(metrics, by, rank) ==
    LET index == {k \in UNION {DOMAIN metrics[c] : c \in DOMAIN metrics} :
                     \A c \in DOMAIN metrics : k \in DOMAIN metrics[c]}
        order == SetToSortedSeq(index, [k \in index |-> rank[k]])
    IN  [cols |-> by \cup DOMAIN metrics,
         rows |-> [i \in 1..Len(order) |->
                     order[i] @@ [c \in DOMAIN metrics |-> At(metrics[c], order[i])]]]

\* pd.DataFrame(metrics).reset_index(): one row per key of the union of the
\* Series' indexes, in index order, NaN where a Series has no such key
FrameOfSeries(metrics, by, rank) ==
    LET index == UNION {DOMAIN metrics[c] : c \in DOMAIN metrics}
        order == SetToSortedSeq(index, [k \in index |-> rank[k]])
    IN  [cols |-> by \cup DOMAIN metrics,
         rows |-> [i \in 1..Len(order) |->
                     order[i] @@ [c \in DOMAIN metrics |-> At(metrics[c], order[i])]]]

\* an aggregator that never splits the customers
daily_never_with_users(d) == FALSE

\* new vs repeat customers are counted when the user table carries the flag
daily_with_users(d) ==
    d["users"] # {} /\ "has_purchase_last_year" \in V(d["users"]).cols

\* the columns create_daily_business_metrics indexes: a KeyError without them
daily_missing_columns(d) ==
    \/ ~ ({"time", "total_price", "order_id"} \subseteq V(d["orders"]).cols)
    \/ ~ ({"time", "session_id", "user_id"} \subseteq V(d["sessions"]).cols)
    \/ daily_with_users(d) /\ "user_id" \notin V(d["users"]).cols
    \/ daily_with_users(d) /\ "user_id" \notin V(d["orders"]).cols

\* (total_orders / total_sessions * 100).fillna(0), the Series aligned on the
\* union of their indexes
conversion_rate(total_orders, total_sessions) ==
    [k \in DOMAIN total_orders \cup DOMAIN total_sessions |->
        fillna(Times100(TrueDiv(AsFlt(At(total_orders, k)),
                                AsFlt(At(total_sessions, k)))),
               Flt(0))]

\* (total_revenue / total_orders).fillna(0)
avg_order_value(total_revenue, total_orders) ==
    [k \in DOMAIN total_revenue \cup DOMAIN total_orders |->
        fillna(TrueDiv(At(total_revenue, k), AsFlt(At(total_orders, k))), Flt(0))]

\* orders_df.groupby('date')['total_price'].sum()
daily_total_revenue(orders_df) ==
    GroupAgg(orders_df, {"date"}, LAMBDA g : {SumOf(g, "total_price")})

daily_frame(d) ==
    LET orders_df == WithDate(V(d["orders"]))
        sessions_df == WithDate(V(d["sessions"]))
        by == {"date"}
        total_revenue == daily_total_revenue(orders_df)
        total_orders ==
            GroupAgg(orders_df, by, LAMBDA g : {nunique(g, "order_id")})
        total_sessions ==
            GroupAgg(sessions_df, by, LAMBDA g : {nunique(g, "session_id")})
        total_users ==
            GroupAgg(sessions_df, by, LAMBDA g : {nunique(g, "user_id")})
        rate == conversion_rate(total_orders, total_sessions)
        aov == avg_order_value(total_revenue, total_orders)
        base == [total_revenue   |-> [k \in DOMAIN total_revenue |->
                                          round2(total_revenue[k])],
                 total_orders    |-> total_orders,
                 total_sessions  |-> total_sessions,
                 total_users     |-> total_users,
                 conversion_rate |-> [k \in DOMAIN rate |-> round2(rate[k])],
                 avg_order_value |-> [k \in DOMAIN aov |-> round2(aov[k])]]
        orders_with_user ==
            merge_left(orders_df,
                       Project(V(d["users"]), {"user_id", "has_purchase_last_year"}),
                       "user_id")
        customers(flag) ==
            GroupAgg(Filter(orders_with_user,
                            LAMBDA r : r["has_purchase_last_year"] = {flag}),
                     by, LAMBDA g : {nunique(g, "user_id")})
        metrics == IF daily_with_users(d)
                   THEN base @@ [new_customers    |-> customers(0),
                                 repeat_customers |-> customers(1)]
                   ELSE base
        index == UNION {DOMAIN metrics[c] : c \in DOMAIN metrics}
    IN  FrameOfSeries(metrics, by, [k \in index |-> V(k["date"])])

\* orders_df['date'] = ... and sessions_df['date'] = ... on the loaded tables
daily_data(d) ==
    Store(Store(d, "orders", WithDate(V(d["orders"]))),
          "sessions", WithDate(V(d["sessions"])))

create_daily_business_metrics(d) ==
    IF d["orders"] = {} \/ d["sessions"] = {} THEN ReturnedNone(d)
    ELSE IF daily_missing_columns(d) THEN Raised(d)
    ELSE Returned(daily_frame(d), daily_data(d))

-----------------------------------------------------------------------------
(* Aggregation 2: session_attribution *)

output_columns_attribution ==
    {"session_id", "user_id", "date", "utm_source", "utm_medium", "utm_campaign",
     "country", "device_type", "platform", "converted", "revenue", "order_id"}

\* a fill that covers utm_source alone
FillDirectSourceOnly(df) ==
    [cols |-> df.cols,
     rows |-> [i \in 1..Len(df.rows) |->
                 [c \in df.cols |->
                     IF c = "utm_source" THEN fillna(df.rows[i][c], "direct")
                     ELSE df.rows[i][c]]]]

\* result_df[col] = result_df[col].fillna('direct') for the UTM columns present
FillDirect(df) ==
    [cols |-> df.cols,
     rows |-> [i \in 1..Len(df.rows) |->
                 [c \in df.cols |->
                     IF c \in {"utm_source", "utm_medium", "utm_campaign"}
                     THEN fillna(df.rows[i][c], "direct")
                     ELSE df.rows[i][c]]]]

\* the order columns the merge takes
attribution_right_cols == {"session_id", "order_id", "total_price", "time"}

attribution_missing_columns(d) ==
    \/ ~ (attribution_right_cols \subseteq V(d["orders"]).cols)
    \/ ~ ({"session_id", "time"} \subseteq V(d["sessions"]).cols)

attribution_frame(d) ==
    LET \* 'time' is in both frames: suffixes=('_session', '_order')
        merged == merge_left(Rename(V(d["sessions"]), "time", "time_session"),
                             Rename(Project(V(d["orders"]), attribution_right_cols),
                                    "time", "time_order"),
                             "session_id")
        dated == SetColumn(merged, "date",
                           LAMBDA r : strftime(r["time_session"]))
        flagged == SetColumn(dated, "converted",
                             LAMBDA r : IF notna(r["order_id"]) THEN {1} ELSE {0})
        valued == SetColumn(flagged, "revenue",
                            LAMBDA r : fillna(r["total_price"], Flt(0)))
        available_columns == output_columns_attribution \cap valued.cols
        result_df == SetColumn(Project(valued, available_columns), "revenue",
                               LAMBDA r : round2(r["revenue"]))
    IN  FillDirect(result_df)

create_session_attribution(d) ==
    IF d["sessions"] = {} THEN ReturnedNone(d)
    \* without orders the right side is pd.DataFrame(), which has no
    \* 'session_id' to merge on: KeyError
    ELSE IF d["orders"] = {} THEN Raised(d)
    ELSE IF attribution_missing_columns(d) THEN Raised(d)
    ELSE Returned(attribution_frame(d), d)

-----------------------------------------------------------------------------
(* Aggregation 3: session_funnel *)

\* a Series.isin that is true whenever there are values at all
isin_any(c, values) == values # {}

\* Series.isin(values) on one cell (a null matches a null among the values)
isin(c, values) == c \in values

\* minutes between two times without the sign
minutes_between_unsigned(a, b) ==
    IF isna(a) \/ isna(b) THEN NaN
    ELSE round2({<<IF V(a) < V(b) THEN V(b) - V(a) ELSE V(a) - V(b), 60>>})

\* ((a - b).dt.total_seconds() / 60).round(2), cell-wise; NaT gives NaN
minutes_between(a, b) ==
    IF isna(a) \/ isna(b) THEN NaN
    ELSE round2({<<V(a) - V(b), 60>>})

funnel_with_paths(d) ==
    d["pageviews"] # {} /\ "path" \in V(d["pageviews"]).cols

funnel_missing_columns(d) ==
    \/ ~ ({"session_id", "user_id", "time"} \subseteq V(d["sessions"]).cols)
    \/ funnel_with_paths(d) /\ "session_id" \notin V(d["pageviews"]).cols
    \/ d["cart"] # {} /\ ~ ({"session_id", "time"} \subseteq V(d["cart"]).cols)
    \/ d["orders"] # {} /\ ~ ({"session_id", "time"} \subseteq V(d["orders"]).cols)

funnel_frame(d) ==
    LET base == WithDate(Project(V(d["sessions"]), {"session_id", "user_id", "time"}))
        product_view_sessions ==
            {r["session_id"] : r \in {x \in RowSet(V(d["pageviews"])) :
                                          contains_product(x["path"])}}
        cart_sessions == {r["session_id"] : r \in RowSet(V(d["cart"]))}
        order_sessions == {r["session_id"] : r \in RowSet(V(d["orders"]))}
        first_cart == GroupAgg(V(d["cart"]), {"session_id"},
                               LAMBDA g : MinOf(g, "time"))
        order_time == GroupAgg(V(d["orders"]), {"session_id"},
                               LAMBDA g : MinOf(g, "time"))
        Row(r) ==
            r @@
            [had_pageview |-> {1},
             had_product_view |->
                 IF funnel_with_paths(d)
                    /\ isin(r["session_id"], product_view_sessions)
                 THEN {1} ELSE {0},
             had_add_to_cart |->
                 IF d["cart"] # {} /\ isin(r["session_id"], cart_sessions)
                 THEN {1} ELSE {0},
             had_order |->
                 IF d["orders"] # {} /\ isin(r["session_id"], order_sessions)
                 THEN {1} ELSE {0},
             time_to_cart_minutes |->
                 IF d["cart"] = {} THEN NaN
                 ELSE minutes_between(
                          At(first_cart, KeyOf(r, {"session_id"})), r["time"]),
             time_to_order_minutes |->
                 IF d["orders"] = {} THEN NaN
                 ELSE minutes_between(
                          At(order_time, KeyOf(r, {"session_id"})), r["time"])]
        funnel == [cols |-> base.cols \cup
                            {"had_pageview", "had_product_view", "had_add_to_cart",
                             "had_order", "time_to_cart_minutes",
                             "time_to_order_minutes"},
                   rows |-> [i \in 1..Len(base.rows) |-> Row(base.rows[i])]]
        output_columns ==
            {"session_id", "user_id", "date", "had_pageview", "had_product_view",
             "had_add_to_cart", "had_order", "time_to_cart_minutes",
             "time_to_order_minutes"}
    IN  Project(funnel, output_columns)

\* the funnel joined with the cart adds themselves instead of each session's
\* first one
create_session_funnel_joining_cart(d) ==
    IF d["sessions"] = {} THEN ReturnedNone(d)
    ELSE IF funnel_missing_columns(d) THEN Raised(d)
    ELSE IF d["cart"] = {} THEN Returned(funnel_frame(d), d)
    ELSE Returned(Project(merge_left(funnel_frame(d),
                                     Project(V(d["cart"]), {"session_id", "event_id"}),
                                     "session_id"),
                          funnel_frame(d).cols), d)

create_session_funnel(d) ==
    IF d["sessions"] = {} THEN ReturnedNone(d)
    ELSE IF funnel_missing_columns(d) THEN Raised(d)
    ELSE Returned(funnel_frame(d), d)

-----------------------------------------------------------------------------
(* Aggregation 4: product_performance_daily *)

\* product_price * product_qty on one row
line_revenue(r) ==
    IF isna(r["product_price"]) \/ isna(r["product_qty"]) THEN NaN
    ELSE {FMul(V(r["product_price"]), V(r["product_qty"]))}

\* the sort key of a rounded float cell, descending
DescKey(c) == IF isna(c) THEN 0 ELSE 0 - V(c)[1]

\* the rows of a frame built from Series over (date, name) keys come in key order
ByDateAndText(key, name) == DateKey(key["date"]) \o <<TextKey(key[name])>>

product_missing_columns(d) ==
    \/ ~ ({"time", "product_name", "event_id", "product_qty", "product_price"}
             \subseteq V(d["order_items"]).cols)
    \/ d["cart"] # {}
         /\ ~ ({"time", "product_name", "event_id"} \subseteq V(d["cart"]).cols)

\* (times_purchased / times_added_to_cart * 100).fillna(0).round(2) on one row
cart_to_purchase_rate(r) ==
    round2(fillna(Times100(TrueDiv(AsFlt(r["times_purchased"]),
                                   AsFlt(r["times_added_to_cart"]))),
                  Flt(0)))

product_frame(d) ==
    LET order_items_df ==
            SetColumn(WithDate(V(d["order_items"])), "line_revenue", line_revenue)
        by == {"date", "product_name"}
        keys == GroupKeys(order_items_df, by)
        purchase ==
            FrameOfSeries(
                [times_purchased |->
                     GroupAgg(order_items_df, by, LAMBDA g : {count(g, "event_id")}),
                 total_quantity_sold |->
                     GroupAgg(order_items_df, by, LAMBDA g : {SumOf(g, "product_qty")}),
                 total_revenue |->
                     GroupAgg(order_items_df, by, LAMBDA g : {SumOf(g, "line_revenue")})],
                by, [k \in keys |-> ByDateAndText(k, "product_name")])
        cart_adds == GroupAgg(WithDate(V(d["cart"])), by,
                              LAMBDA g : {count(g, "event_id")})
        with_cart ==
            SetColumn(purchase, "times_added_to_cart",
                LAMBDA r : IF d["cart"] = {} THEN {0}
                           ELSE fillna(At(cart_adds, KeyOf(r, by)), 0))
        with_rate ==
            SetColumn(with_cart, "cart_to_purchase_rate",
                LAMBDA r : IF d["cart"] = {} THEN {Money(0)}
                           ELSE cart_to_purchase_rate(r))
        rounded == SetColumn(with_rate, "total_revenue",
                             LAMBDA r : round2(r["total_revenue"]))
    IN  sort_values(rounded,
            LAMBDA r : DateKey(r["date"]) \o <<DescKey(r["total_revenue"])>>)

\* order_items_df gains 'date' and 'line_revenue', cart_df gains 'date'
product_data(d) ==
    LET d1 == Store(d, "order_items",
                    SetColumn(WithDate(V(d["order_items"])), "line_revenue",
                              line_revenue))
    IN  IF d["cart"] = {} THEN d1 ELSE Store(d1, "cart", WithDate(V(d["cart"])))

\* the aggregator without its `cart_df is not None` test: cart_df['time'] is
\* read on None
create_product_performance_reading_cart(d) ==
    IF d["order_items"] = {} THEN ReturnedNone(d)
    ELSE IF d["cart"] = {} \/ product_missing_columns(d) THEN Raised(d)
    ELSE Returned(product_frame(d), product_data(d))

create_product_performance_daily(d) ==
    IF d["order_items"] = {} THEN ReturnedNone(d)
    ELSE IF product_missing_columns(d) THEN Raised(d)
    ELSE Returned(product_frame(d), product_data(d))

-----------------------------------------------------------------------------
(* Aggregation 5: user_lifetime_metrics *)

\* (today - last_order_date).dt.days, today being midnight of the run's date
days_since(day, last) ==
    IF isna(last) THEN NaN ELSE {(day * SecondsPerDay - V(last)) \div SecondsPerDay}

\* pd.cut(x, bins, labels): the label of the bin (bins[i], bins[i+1]] holding
\* x, an open last bin standing for float('inf'); NaN outside every bin
RECURSIVE cut(_, _, _)
cut(x, bins, labels) ==
    IF labels = <<>> THEN NaN
    ELSE IF /\ FLt(bins[1], x)
            /\ (Len(bins) = 1 \/ ~ FLt(bins[2], x))
         THEN {Head(labels)}
    ELSE cut(x, Tail(bins), Tail(labels))

\* pd.cut(...).fillna(1).astype(int) on one cell
score(c, bins, labels) ==
    IF isna(c) THEN {1} ELSE fillna(cut(V(c), bins, labels), 1)

recency_bins == <<Flt(-1), Flt(30), Flt(90), Flt(180), Flt(365)>>

\* frequency bins with the 3-4 bucket widened to 3-5
frequency_bins_wider == <<Flt(0), Flt(1), Flt(2), Flt(5), Flt(9)>>

frequency_bins == <<Flt(0), Flt(1), Flt(2), Flt(4), Flt(9)>>

monetary_bins == <<Flt(0), Flt(50), Flt(200), Flt(500), Flt(1000)>>

\* the segments with the tests for 'Lost' and 'Needs Attention' exchanged
assign_segment_attention_first(rfm_score) ==
    LET r == rfm_score[1]
        f == rfm_score[2]
        m == rfm_score[3]
    IN  IF r >= 4 /\ f >= 4 /\ m >= 4 THEN "Champion"
        ELSE IF r >= 3 /\ f >= 4 THEN "Loyal Customer"
        ELSE IF r >= 3 /\ f >= 2 THEN "Potential Loyalist"
        ELSE IF r <= 2 /\ f >= 3 THEN "At Risk"
        ELSE IF r <= 2 /\ f <= 2 THEN "Needs Attention"
        ELSE IF r = 1 /\ f <= 2 THEN "Lost"
        ELSE IF f <= 2 THEN "New Customer"
        ELSE "Regular"

\* the segments with 'Potential Loyalist' kept to exactly two orders
assign_segment_two_orders(rfm_score) ==
    LET r == rfm_score[1]
        f == rfm_score[2]
        m == rfm_score[3]
    IN  IF r >= 4 /\ f >= 4 /\ m >= 4 THEN "Champion"
        ELSE IF r >= 3 /\ f >= 4 THEN "Loyal Customer"
        ELSE IF r >= 3 /\ f = 2 THEN "Potential Loyalist"
        ELSE IF r <= 2 /\ f >= 3 THEN "At Risk"
        ELSE IF r = 1 /\ f <= 2 THEN "Lost"
        ELSE IF r <= 2 /\ f <= 2 THEN "Needs Attention"
        ELSE IF f <= 2 THEN "New Customer"
        ELSE "Regular"

\* rfm_score is the three digits as text, read back digit by digit
assign_segment(rfm_score) ==
    LET r == rfm_score[1]
        f == rfm_score[2]
        m == rfm_score[3]
    IN  IF r >= 4 /\ f >= 4 /\ m >= 4 THEN "Champion"
        ELSE IF r >= 3 /\ f >= 4 THEN "Loyal Customer"
        ELSE IF r >= 3 /\ f >= 2 THEN "Potential Loyalist"
        ELSE IF r <= 2 /\ f >= 3 THEN "At Risk"
        ELSE IF r = 1 /\ f <= 2 THEN "Lost"
        ELSE IF r <= 2 /\ f <= 2 THEN "Needs Attention"
        ELSE IF f <= 2 THEN "New Customer"
        ELSE "Regular"

user_flag_cols == {"user_id", "has_purchase_last_year", "has_purchase_last_qtr"}

user_with_flags(d) == "has_purchase_last_year" \in V(d["users"]).cols

user_missing_columns(d) ==
    \/ ~ ({"user_id", "time", "order_id", "total_price"}
             \subseteq V(d["orders"]).cols)
    \/ user_with_flags(d) /\ ~ (user_flag_cols \subseteq V(d["users"]).cols)

\* the three scores, rfm_score and rfm_segment of one user row
rfm(r) ==
    LET rs == score(AsFlt(r["days_since_last_order"]),
                    recency_bins, <<5, 4, 3, 2, 1>>)
        fs == score(AsFlt(r["total_orders"]), frequency_bins, <<1, 2, 3, 4, 5>>)
        ms == score(r["total_revenue"], monetary_bins, <<1, 2, 3, 4, 5>>)
        rfm_score == <<V(rs), V(fs), V(ms)>>
    IN  [rfm_recency_score |-> rs, rfm_frequency_score |-> fs,
         rfm_monetary_score |-> ms, rfm_score |-> {rfm_score},
         rfm_segment |-> {assign_segment(rfm_score)}]

user_frame(d, day) ==
    LET orders_df == V(d["orders"])
        by == {"user_id"}
        keys == GroupKeys(orders_df, by)
        last == GroupAgg(orders_df, by, LAMBDA g : MaxOf(g, "time"))
        grouped ==
            FrameOfSeries(
                [first_order_date |->
                     GroupAgg(orders_df, by, LAMBDA g : strftime(MinOf(g, "time"))),
                 last_order_date |->
                     [k \in keys |-> strftime(last[k])],
                 total_orders |->
                     GroupAgg(orders_df, by, LAMBDA g : {nunique(g, "order_id")}),
                 total_revenue |->
                     GroupAgg(orders_df, by,
                              LAMBDA g : round2({SumOf(g, "total_price")})),
                 avg_order_value |->
                     GroupAgg(orders_df, by,
                              LAMBDA g : round2(mean(g, "total_price"))),
                 days_since_last_order |->
                     [k \in keys |-> days_since(day, last[k])]],
                by, [k \in keys |-> <<TextKey(k["user_id"])>>])
        scored == [cols |-> grouped.cols \cup
                            {"rfm_recency_score", "rfm_frequency_score",
                             "rfm_monetary_score", "rfm_score", "rfm_segment"},
                   rows |-> [i \in 1..Len(grouped.rows) |->
                               grouped.rows[i] @@ rfm(grouped.rows[i])]]
        merged == IF user_with_flags(d)
                  THEN merge_left(scored, Project(V(d["users"]), user_flag_cols),
                                  "user_id")
                  ELSE scored
    IN  sort_values(merged, LAMBDA r : <<DescKey(r["total_revenue"])>>)

create_user_lifetime_metrics(d, day) ==
    IF d["orders"] = {} \/ d["users"] = {} THEN ReturnedNone(d)
    ELSE IF user_missing_columns(d) THEN Raised(d)
    ELSE Returned(user_frame(d, day), d)

-----------------------------------------------------------------------------
(* Aggregation 6: page_engagement_metrics *)

page_missing_columns(d) ==
    \/ ~ ({"time", "path", "event_id", "user_id", "session_id"}
             \subseteq V(d["pageviews"]).cols)
    \/ d["scrolls"] # {}
         /\ ~ ({"time", "path", "scroll_percent"} \subseteq V(d["scrolls"]).cols)
    \/ d["clicks"] # {}
         /\ ~ ({"time", "path", "event_id"} \subseteq V(d["clicks"]).cols)

page_frame(d) ==
    LET pageviews_df == WithDate(V(d["pageviews"]))
        by == {"date", "path"}
        keys == GroupKeys(pageviews_df, by)
        counted ==
            FrameOfSeries(
                [pageviews |->
                     GroupAgg(pageviews_df, by, LAMBDA g : {count(g, "event_id")}),
                 unique_users |->
                     GroupAgg(pageviews_df, by, LAMBDA g : {nunique(g, "user_id")}),
                 sessions_with_page |->
                     GroupAgg(pageviews_df, by, LAMBDA g : {nunique(g, "session_id")})],
                by, [k \in keys |-> DateKey(k["date"]) \o <<PathKey(k["path"])>>])
        avg_scroll == GroupAgg(WithDate(V(d["scrolls"])), by,
                               LAMBDA g : round2(mean(g, "scroll_percent")))
        clicks_count == GroupAgg(WithDate(V(d["clicks"])), by,
                                 LAMBDA g : {count(g, "event_id")})
        with_scroll ==
            SetColumn(counted, "avg_scroll_depth",
                LAMBDA r : IF d["scrolls"] = {} THEN {Money(0)}
                           ELSE fillna(At(avg_scroll, KeyOf(r, by)), Money(0)))
        with_clicks ==
            SetColumn(with_scroll, "total_clicks",
                LAMBDA r : IF d["clicks"] = {} THEN {0}
                           ELSE fillna(At(clicks_count, KeyOf(r, by)), 0))
    IN  sort_values(with_clicks,
            LAMBDA r : DateKey(r["date"]) \o <<0 - V(r["pageviews"])>>)

\* pageviews_df, scrolls_df and clicks_df each gain 'date'
page_data(d) ==
    LET d1 == Store(d, "pageviews", WithDate(V(d["pageviews"])))
        d2 == IF d["scrolls"] = {} THEN d1
              ELSE Store(d1, "scrolls", WithDate(V(d["scrolls"])))
    IN  IF d["clicks"] = {} THEN d2
        ELSE Store(d2, "clicks", WithDate(V(d["clicks"])))

create_page_engagement_metrics(d) ==
    IF d["pageviews"] = {} THEN ReturnedNone(d)
    ELSE IF page_missing_columns(d) THEN Raised(d)
    ELSE Returned(page_frame(d), page_data(d))

-----------------------------------------------------------------------------
(* Aggregation 7: coupon_performance *)

coupon_missing_columns(d) ==
    ~ ({"time", "order_id", "discount", "total_price"} \subseteq V(d["orders"]).cols)

\* orders_df with 'date' added and the null coupon codes left null
coupon_orders_unlabelled(d) == WithDate(V(d["orders"]))

\* orders_df with 'date' added and its null coupon codes relabelled, in place
coupon_orders(d) ==
    SetColumn(WithDate(V(d["orders"])), "discount_coupon_code",
              LAMBDA r : fillna(r["discount_coupon_code"], "NO_COUPON"))

\* (total_discount_given / total_revenue * 100).round(2) on one row
discount_percentage(r) ==
    round2(Times100(TrueDiv(r["total_discount_given"], r["total_revenue"])))

coupon_frame(d) ==
    LET orders_df == coupon_orders(d)
        by == {"date", "discount_coupon_code"}
        keys == GroupKeys(orders_df, by)
        grouped ==
            FrameOfSeries(
                [usage_count |->
                     GroupAgg(orders_df, by, LAMBDA g : {count(g, "order_id")}),
                 total_discount_given |->
                     GroupAgg(orders_df, by, LAMBDA g : round2({SumOf(g, "discount")})),
                 total_revenue |->
                     GroupAgg(orders_df, by,
                              LAMBDA g : round2({SumOf(g, "total_price")})),
                 avg_order_value |->
                     GroupAgg(orders_df, by,
                              LAMBDA g : round2(mean(g, "total_price")))],
                by, [k \in keys |-> ByDateAndText(k, "discount_coupon_code")])
        with_pct == SetColumn(grouped, "discount_percentage", discount_percentage)
    IN  sort_values(with_pct,
            LAMBDA r : DateKey(r["date"]) \o <<0 - V(r["usage_count"])>>)

create_coupon_performance(d) ==
    IF d["orders"] = {} \/ "discount_coupon_code" \notin V(d["orders"]).cols
    THEN ReturnedNone(d)
    ELSE IF coupon_missing_columns(d) THEN Raised(d)
    ELSE Returned(coupon_frame(d), Store(d, "orders", coupon_orders(d)))

-----------------------------------------------------------------------------
(* main() *)

\* the seven outputs, in the order main() creates and saves them
MainOrder == <<"daily_business_metrics", "session_attribution", "session_funnel",
               "product_performance_daily", "user_lifetime_metrics",
               "page_engagement_metrics", "coupon_performance">>

Outputs == {MainOrder[i] : i \in 1..Len(MainOrder)}

\* the first k outputs of main()'s order
FirstOutputs(k) == {MainOrder[i] : i \in 1..k}

\* the create_* call main() makes for output a, on its dict `data`
Aggregate(a, d, day) ==
    CASE a = "daily_business_metrics"    -> create_daily_business_metrics(d)
      [] a = "session_attribution"       -> create_session_attribution(d)
      [] a = "session_funnel"            -> create_session_funnel(d)
      [] a = "product_performance_daily" -> create_product_performance_daily(d)
      [] a = "user_lifetime_metrics"     -> create_user_lifetime_metrics(d, day)
      [] a = "page_engagement_metrics"   -> create_page_engagement_metrics(d)
      [] a = "coupon_performance"        -> create_coupon_performance(d)

\* a core check that stops the run only when both core tables are missing
core_missing_both(d) == d["sessions"] = {} /\ d["orders"] = {}

\* main(): `if data['sessions'] is None or data['orders'] is None: return`
core_missing(d) == d["sessions"] = {} \/ d["orders"] = {}

\* a to_csv that opens the file in append mode
to_csv_appending(old, df) ==
    IF old = {} THEN {df}
    ELSE {[cols |-> df.cols, rows |-> V(old).rows \o df.rows]}

\* df.to_csv(filepath, index=False): the file is replaced by the table
to_csv(old, df) == {df}

\* save_to_csv: `if df is None or df.empty` the save is skipped
save_skipped(result) == result = {} \/ empty(V(result))

\* save_to_csv without its try/except: a failed write ends main()
after_save_propagating(outcome, n) ==
    IF outcome = "error" THEN "raised"
    ELSE IF n = Len(MainOrder) THEN "complete" ELSE "save"

\* where main() stands after the n-th save_to_csv call: the except clause of
\* save_to_csv swallows a failed write
after_save(outcome, n) == IF n = Len(MainOrder) THEN "complete" ELSE "save"

NoTables == [t \in Tables |-> {}]

NoOutputs == [f \in Outputs |-> {}]

\* STEP 1: load_all_raw_data(), then the check for the core tables
LoadAllRawData ==
    /\ pc = "start"
    /\ data' = load_all_raw_data(raw)
    /\ pc' = IF core_missing(data') THEN "aborted" ELSE "aggregate"
    /\ UNCHANGED <<raw, today, called, results, attempts, files, failures,
                   runs, prev>>

\* STEP 2, one call: the aggregator returns its table (or None), having
\* changed the loaded tables it writes to, or raises and ends the run
Call(a, out) ==
    /\ IF out.raised
       THEN /\ pc' = "raised"
            /\ UNCHANGED <<data, called, results>>
       ELSE /\ data' = out.data
            /\ called' = called \cup {a}
            /\ results' = [results EXCEPT ![a] = out.result]
            /\ pc' = IF called' = Outputs THEN "save" ELSE "aggregate"
    /\ UNCHANGED <<raw, today, attempts, files, failures, runs, prev>>

CreateDailyBusinessMetrics ==
    /\ pc = "aggregate" /\ called = FirstOutputs(0)
    /\ Call("daily_business_metrics", create_daily_business_metrics(data))

CreateSessionAttribution ==
    /\ pc = "aggregate" /\ called = FirstOutputs(1)
    /\ Call("session_attribution", create_session_attribution(data))

CreateSessionFunnel ==
    /\ pc = "aggregate" /\ called = FirstOutputs(2)
    /\ Call("session_funnel", create_session_funnel(data))

CreateProductPerformanceDaily ==
    /\ pc = "aggregate" /\ called = FirstOutputs(3)
    /\ Call("product_performance_daily", create_product_performance_daily(data))

CreateUserLifetimeMetrics ==
    /\ pc = "aggregate" /\ called = FirstOutputs(4)
    /\ Call("user_lifetime_metrics", create_user_lifetime_metrics(data, today))

CreatePageEngagementMetrics ==
    /\ pc = "aggregate" /\ called = FirstOutputs(5)
    /\ Call("page_engagement_metrics", create_page_engagement_metrics(data))

CreateCouponPerformance ==
    /\ pc = "aggregate" /\ called = FirstOutputs(6)
    /\ Call("coupon_performance", create_coupon_performance(data))

\* STEP 3, one save_to_csv call whose write (if any) succeeds
\* a save_to_csv call placed right after the create_* call of its table
SaveToCsvAsComputed ==
    /\ pc \in {"aggregate", "save"}
    /\ Len(attempts) < Cardinality(called)
    /\ LET f == MainOrder[Len(attempts) + 1]
           outcome == IF save_skipped(results[f]) THEN "skipped" ELSE "saved"
       IN  /\ files' = IF save_skipped(results[f]) THEN files
                       ELSE [files EXCEPT ![f] = to_csv(@, V(results[f]))]
           /\ attempts' = Append(attempts, [file |-> f, outcome |-> outcome])
           /\ pc' = IF pc = "aggregate" THEN pc
                    ELSE after_save(outcome, Len(attempts'))
    /\ UNCHANGED <<raw, today, data, called, results, failures, runs, prev>>

SaveToCsv ==
    /\ pc = "save"
    /\ LET f == MainOrder[Len(attempts) + 1]
           outcome == IF save_skipped(results[f]) THEN "skipped" ELSE "saved"
       IN  /\ files' = IF save_skipped(results[f]) THEN files
                       ELSE [files EXCEPT ![f] = to_csv(@, V(results[f]))]
           /\ attempts' = Append(attempts, [file |-> f, outcome |-> outcome])
           /\ pc' = after_save(outcome, Len(attempts'))
    /\ UNCHANGED <<raw, today, data, called, results, failures, runs, prev>>

\* what a to_csv call that raises part-way leaves in the file: the header
\* and the rows written so far
partial_writes(df) ==
    {{[cols |-> df.cols, rows |-> SubSeq(df.rows, 1, n)]} : n \in 0..(Len(df.rows) - 1)}

\* STEP 3, one save_to_csv call whose to_csv raises: the file is left as it
\* was (it could not be opened) or holds a partial write
SaveToCsvFails ==
    /\ pc = "save"
    /\ failures > 0
    /\ LET f == MainOrder[Len(attempts) + 1]
       IN  /\ ~ save_skipped(results[f])
           /\ \E content \in {files[f]} \cup partial_writes(V(results[f])) :
                 files' = [files EXCEPT ![f] = content]
           /\ attempts' = Append(attempts, [file |-> f, outcome |-> "error"])
           /\ pc' = after_save("error", Len(attempts'))
    /\ failures' = failures - 1
    /\ UNCHANGED <<raw, today, data, called, results, runs, prev>>

-----------------------------------------------------------------------------
(* One run of the pipeline, over the raw directories it may find *)

\* the write failures injected in one run, at most
MaxWriteFailures == 1

\* the raw tables stored without one of their columns, at most
MaxDegraded == 1

\* the date of the first run, in days since EpochDate
FirstRunDay == 40

\* the column a table may be stored without
Droppable ==
    [users       |-> {"has_purchase_last_year", "has_purchase_last_qtr"},
     sessions    |-> {"utm_campaign"},
     orders      |-> {"discount_coupon_code"},
     order_items |-> {"time"},
     cart        |-> {"time"},
     pageviews   |-> {"path"},
     scrolls     |-> {"scroll_percent"},
     clicks      |-> {"path"}]

\* raw_data/ holding the tables `present`, those in DOMAIN dropped without
\* the column named
RawStore(present, dropped) ==
    [t \in Tables |->
        IF t \notin present THEN {}
        ELSE IF t \in DOMAIN dropped THEN {DropColumn(Sample[t], dropped[t])}
        ELSE {Sample[t]}]

RawStores ==
    {RawStore(present, dropped) :
        present \in SUBSET Tables,
        dropped \in UNION {{f \in [D -> UNION {Droppable[t] : t \in Tables}] :
                               \A t \in D : f[t] \in Droppable[t]} :
                           D \in {X \in SUBSET Tables : Cardinality(X) <= MaxDegraded}}}

StartOfRun ==
    /\ pc = "start"
    /\ data = NoTables
    /\ called = {}
    /\ results = NoOutputs
    /\ attempts = <<>>

Init ==
    /\ raw \in RawStores
    /\ today = FirstRunDay
    /\ StartOfRun
    /\ files = NoOutputs
    /\ failures = MaxWriteFailures
    /\ runs = 1
    /\ prev = {}

Next ==
    \/ LoadAllRawData
    \/ CreateDailyBusinessMetrics
    \/ CreateSessionAttribution
    \/ CreateSessionFunnel
    \/ CreateProductPerformanceDaily
    \/ CreateUserLifetimeMetrics
    \/ CreatePageEngagementMetrics
    \/ CreateCouponPerformance
    \/ SaveToCsv
    \/ SaveToCsvFails

Spec == Init /\ [][Next]_vars

-----------------------------------------------------------------------------
(* The pipeline run again and again over the same directories: raw_data/ may
   change between runs, processed_data/ keeps what the runs wrote *)

\* the runs of one behaviour, at most
MaxRuns == 2

\* the days between two consecutive runs, at most
MaxDayGap == 1

\* a table none of whose 'time' cells can be parsed
Unparseable(df) == SetColumn(df, "time", LAMBDA r : {BadTime})

\* the raw directories of the runs: the user table present or not, the
\* pageview table present, absent or without a parseable time
RunStores ==
    {[[t \in Tables |-> {Sample[t]}] EXCEPT !["users"] = u, !["pageviews"] = p] :
        u \in {{}, {SampleUsers}},
        p \in {{}, {SamplePageviews}, {Unparseable(SamplePageviews)}}}

InitRuns ==
    /\ raw \in RunStores
    /\ today = FirstRunDay
    /\ StartOfRun
    /\ files = NoOutputs
    /\ failures = 0
    /\ runs = 1
    /\ prev = {}

\* main() is started again, on the same day or later, once the run before it
\* has ended
RunAgain ==
    /\ pc \in {"complete", "aborted", "raised"}
    /\ runs < MaxRuns
    /\ runs' = runs + 1
    /\ prev' = prev \cup {[raw |-> raw, today |-> today, pc |-> pc,
                           results |-> results, files |-> files]}
    /\ raw' \in RunStores
    /\ today' \in today..(today + MaxDayGap)
    /\ pc' = "start"
    /\ data' = NoTables
    /\ called' = {}
    /\ results' = NoOutputs
    /\ attempts' = <<>>
    /\ UNCHANGED <<files, failures>>

NextRuns ==
    \/ LoadAllRawData
    \/ CreateDailyBusinessMetrics
    \/ CreateSessionAttribution
    \/ CreateSessionFunnel
    \/ CreateProductPerformanceDaily
    \/ CreateUserLifetimeMetrics
    \/ CreatePageEngagementMetrics
    \/ CreateCouponPerformance
    \/ SaveToCsv
    \/ RunAgain

SpecRuns == InitRuns /\ [][NextRuns]_vars

-----------------------------------------------------------------------------
(* The seven create_* calls of main() made in any order on the loaded tables *)

CallInAnyOrder ==
    /\ pc = "aggregate"
    /\ \E a \in Outputs \ called : Call(a, Aggregate(a, data, today))

NextAnyOrder ==
    \/ LoadAllRawData
    \/ CallInAnyOrder

\* the optional tables missing from raw_data/, at most
MaxAbsent == 1

\* raw directories with both core tables
OrderStores ==
    {store \in RawStores :
        /\ ~ core_missing(store)
        /\ Cardinality({t \in Tables : store[t] = {}}) <= MaxAbsent}

InitAnyOrder ==
    /\ raw \in OrderStores
    /\ today = FirstRunDay
    /\ StartOfRun
    /\ files = NoOutputs
    /\ failures = 0
    /\ runs = 1
    /\ prev = {}

SpecAnyOrder == InitAnyOrder /\ [][NextAnyOrder]_vars

\* main()'s own sequence of calls, one more call made on the outcome so far
main_step(a, s, out) ==
    IF s.raised \/ out.raised THEN [s EXCEPT !.raised = TRUE]
    ELSE [raised |-> FALSE, data |-> out.data,
          results |-> [s.results EXCEPT ![a] = out.result]]

main_call(a, s, day) == main_step(a, s, Aggregate(a, s.data, day))

\* what main() holds after its first k create_* calls on the tables loaded
\* from store: lines 1257-1303
RECURSIVE main_calls(_, _, _)
main_calls(store, day, k) ==
    IF k = 0
    THEN [raised |-> FALSE, data |-> load_all_raw_data(store), results |-> NoOutputs]
    ELSE main_call(MainOrder[k], main_calls(store, day, k - 1), day)

-----------------------------------------------------------------------------
(* create_daily_business_metrics on small order and session tables *)

\* the rows of the order table, at most
MaxOrders == 2

\* the rows of the session table, at most
MaxSessions == 2

\* the 'time' cells as stored: two days whose DD/MM/YYYY texts sort against
\* their dates, and a text that is no timestamp
DailyTimes == {T(0, 3600), T(2, 7200), BadTime}

DailyPrices == {Money(1000), Money(2550)}

OrderIds == <<"o1", "o2", "o3", "o4">>

SessionIds == <<"s1", "s2", "s3", "s4">>

\* order i of the table: order_id may be null
DailyOrderRows(i) ==
    {[order_id |-> id, user_id |-> {"u1"}, session_id |-> {"s1"}, time |-> {t},
      total_price |-> {p}, discount |-> {Money(0)}, discount_coupon_code |-> NaN] :
        id \in {NaN, {OrderIds[i]}}, t \in DailyTimes, p \in DailyPrices}

\* session i of the table: session_id may be null
DailySessionRows(i) ==
    {[SampleSessions.rows[1] EXCEPT !["session_id"] = id, !["time"] = {t}] :
        id \in {NaN, {SessionIds[i]}}, t \in DailyTimes \ {BadTime}}

\* the tables of n rows, row i drawn from Rows(i)
TablesOf(cols, Rows(_), n) ==
    {DataFrame(cols, rows) :
        rows \in {r \in [1..n -> UNION {Rows(i) : i \in 1..n}] :
                     \A i \in 1..n : r[i] \in Rows(i)}}

InitDaily ==
    /\ \E no \in 0..MaxOrders, ns \in 0..MaxSessions :
          \E orders \in TablesOf(SampleOrders.cols, DailyOrderRows, no),
             sessions \in TablesOf(SampleSessions.cols, DailySessionRows, ns) :
                raw = [NoTables EXCEPT !["orders"] = {orders},
                                       !["sessions"] = {sessions}]
    /\ today = FirstRunDay
    /\ StartOfRun
    /\ files = NoOutputs
    /\ failures = 0
    /\ runs = 1
    /\ prev = {}

NextDaily ==
    \/ LoadAllRawData
    \/ CreateDailyBusinessMetrics

SpecDaily == InitDaily /\ [][NextDaily]_vars

-----------------------------------------------------------------------------
(* create_daily_business_metrics on orders of known and unknown users *)

\* order i of the table: placed by u1 (flag 0), u2 (flag 1), u3 (not in the
\* user table) or nobody, on one of two dates
CustomerOrderRows(i) ==
    {[order_id |-> {OrderIds[i]}, user_id |-> u, session_id |-> {"s1"},
      time |-> {t}, total_price |-> {Money(1000)}, discount |-> {Money(0)},
      discount_coupon_code |-> NaN] :
        u \in {NaN, {"u1"}, {"u2"}, {"u3"}}, t \in DailyTimes \ {BadTime}}

\* the user table: absent, complete, or without has_purchase_last_year
CustomerUsers ==
    {{}, {SampleUsers}, {DropColumn(SampleUsers, "has_purchase_last_year")}}

InitCustomers ==
    /\ \E no \in 0..MaxOrders :
          \E orders \in TablesOf(SampleOrders.cols, CustomerOrderRows, no),
             users \in CustomerUsers :
                raw = [NoTables EXCEPT !["orders"] = {orders},
                                       !["sessions"] = {SampleSessions},
                                       !["users"] = users]
    /\ today = FirstRunDay
    /\ StartOfRun
    /\ files = NoOutputs
    /\ failures = 0
    /\ runs = 1
    /\ prev = {}

SpecCustomers == InitCustomers /\ [][NextDaily]_vars

-----------------------------------------------------------------------------
(* create_session_attribution called on small session and order tables, by
   main() or by any other caller (no check for the core tables) *)

\* session i of the table: session_id may be null, the UTM cells are all
\* null or all set
AttributionSessionRows(i) ==
    {[SampleSessions.rows[1] EXCEPT
         !["session_id"] = id,
         !["utm_source"] = IF tagged THEN @ ELSE NaN,
         !["utm_medium"] = IF tagged THEN @ ELSE NaN,
         !["utm_campaign"] = IF tagged THEN @ ELSE NaN] :
        id \in {NaN, {SessionIds[i]}}, tagged \in BOOLEAN}

\* order i of the table: of the first or the second session, of a session the
\* table does not have, or of none; order_id may be null
AttributionOrderRows(i) ==
    {[order_id |-> id, user_id |-> {"u1"}, session_id |-> sid,
      time |-> {T(0, 3600)}, total_price |-> {Money(1000 * i)},
      discount |-> {Money(0)}, discount_coupon_code |-> NaN] :
        id \in {NaN, {OrderIds[i]}},
        sid \in {NaN, {SessionIds[1]}, {SessionIds[2]}, {SessionIds[4]}}}

InitAttribution ==
    /\ \E no \in 0..MaxOrders, ns \in 0..MaxSessions :
          \E orders \in {{}} \cup {{o} : o \in TablesOf(SampleOrders.cols,
                                                        AttributionOrderRows, no)},
             sessions \in TablesOf(SampleSessions.cols, AttributionSessionRows, ns) :
                raw = [NoTables EXCEPT !["orders"] = orders,
                                       !["sessions"] = {sessions}]
    /\ today = FirstRunDay
    /\ StartOfRun
    /\ files = NoOutputs
    /\ failures = 0
    /\ runs = 1
    /\ prev = {}

\* load_all_raw_data() called by itself
LoadTables ==
    /\ pc = "start"
    /\ data' = load_all_raw_data(raw)
    /\ pc' = "aggregate"
    /\ UNCHANGED <<raw, today, called, results, attempts, files, failures,
                   runs, prev>>

\* create_session_attribution(sessions_df, orders_df) called on the loaded
\* tables
CallSessionAttribution ==
    /\ pc = "aggregate" /\ "session_attribution" \notin called
    /\ Call("session_attribution", create_session_attribution(data))

NextAttribution ==
    \/ LoadTables
    \/ CallSessionAttribution

SpecAttribution == InitAttribution /\ [][NextAttribution]_vars

-----------------------------------------------------------------------------
(* create_session_funnel called on small session, pageview, cart and order
   tables *)

MaxCartAdds == 2

\* session i: with or without a session_id, started at 00:10:00; the first
\* one may have a start time that cannot be parsed
FunnelSessionRows(i) ==
    {[SampleSessions.rows[1] EXCEPT !["session_id"] = id, !["time"] = {t}] :
        id \in {NaN, {SessionIds[i]}},
        t \in IF i = 1 THEN {T(0, 600), BadTime} ELSE {T(0, 600)}}

\* cart add i: in the first or second session or in none, 10 s before or
\* after the session start (or at a time that cannot be parsed); a later
\* cart add may also fall on the session start
FunnelCartRows(i) ==
    {[event_id |-> {"c1"}, session_id |-> sid, time |-> {t},
      product_name |-> {"Hat"}] :
        sid \in {NaN, {SessionIds[1]}, {SessionIds[2]}},
        t \in IF i = 1 THEN {T(0, 590), T(0, 610), BadTime}
              ELSE {T(0, 600), T(0, 610)}}

\* the order: in the first session or in none, at the session start or a
\* minute later
FunnelOrderRows(i) ==
    {[SampleOrders.rows[1] EXCEPT !["session_id"] = sid, !["time"] = {t}] :
        sid \in {NaN, {SessionIds[1]}}, t \in {T(0, 600), T(0, 660)}}

\* the pageview table: absent, or one view of a plain or a product page
FunnelPageviews ==
    {{}} \cup
    {{DataFrame(SamplePageviews.cols,
                <<[SamplePageviews.rows[1] EXCEPT !["session_id"] = {sid},
                                                  !["path"] = {path}]>>)} :
        sid \in {SessionIds[1], SessionIds[2]},
        path \in {<<"home">>, <<"product", "hat">>}}

InitFunnel ==
    /\ \E ns \in 1..MaxSessions, nc \in 0..MaxCartAdds :
          \E sessions \in TablesOf(SampleSessions.cols, FunnelSessionRows, ns),
             cart \in {{}} \cup
                      {{c} : c \in TablesOf(SampleCart.cols, FunnelCartRows, nc)},
             orders \in {{}} \cup
                      {{o} : o \in TablesOf(SampleOrders.cols, FunnelOrderRows, 1)},
             pageviews \in FunnelPageviews :
                raw = [NoTables EXCEPT !["sessions"] = {sessions},
                                       !["cart"] = cart,
                                       !["orders"] = orders,
                                       !["pageviews"] = pageviews]
    /\ today = FirstRunDay
    /\ StartOfRun
    /\ files = NoOutputs
    /\ failures = 0
    /\ runs = 1
    /\ prev = {}

CallSessionFunnel ==
    /\ pc = "aggregate"
    /\ "session_funnel" \notin called
    /\ Call("session_funnel", create_session_funnel(data))

NextFunnel ==
    \/ LoadTables
    \/ CallSessionFunnel

SpecFunnel == InitFunnel /\ [][NextFunnel]_vars

-----------------------------------------------------------------------------
(* create_user_lifetime_metrics run on days around the recency boundaries *)

\* the date of the run (datetime.now().date()), in days after EpochDate
RecencyRunDays == {0, 1, 30, 31, 90, 91, 180, 181, 365, 366}

\* order i: by u1 or u2, at midnight or at 00:10 of day 0, or at 00:10 of
\* day 1
RecencyOrderRows(i) ==
    {[SampleOrders.rows[1] EXCEPT !["order_id"] = {OrderIds[i]},
                                  !["user_id"] = {u}, !["time"] = {t}] :
        u \in {"u1", "u2"}, t \in {T(0, 0), T(0, 600), T(1, 600)}}

InitRecency ==
    /\ \E no \in 1..MaxOrders :
          \E orders \in TablesOf(SampleOrders.cols, RecencyOrderRows, no) :
              raw = [NoTables EXCEPT !["orders"] = {orders},
                                     !["users"] = {SampleUsers}]
    /\ today \in RecencyRunDays
    /\ StartOfRun
    /\ files = NoOutputs
    /\ failures = 0
    /\ runs = 1
    /\ prev = {}

CallUserLifetimeMetrics ==
    /\ pc = "aggregate"
    /\ "user_lifetime_metrics" \notin called
    /\ Call("user_lifetime_metrics", create_user_lifetime_metrics(data, today))

NextRecency ==
    \/ LoadTables
    \/ CallUserLifetimeMetrics

SpecRecency == InitRecency /\ [][NextRecency]_vars

-----------------------------------------------------------------------------
(* create_user_lifetime_metrics on one user's orders, over the score
   boundaries *)

MaxUserOrders == 10

\* the date of the run: 0, 31, 91, 181 and 366 days after the last order
ScoreRunDays == {1, 32, 92, 182, 367}

\* the price of the user's first order, in hundredths, around the bounds of
\* the monetary buckets
ScorePrices == {0, 4999, 5000, 5001, 19999, 20000, 20001, 49999, 50000,
                50001, 99999, 100000, 100001}

ScoreOrderIds == <<"o1", "o2", "o3", "o4", "o5", "o6", "o7", "o8", "o9",
                   "o10", "o11", "o12">>

\* order i of user u1: the first one at price p, the later ones free of
\* charge
ScoreOrderRow(i, p) ==
    [SampleOrders.rows[1] EXCEPT !["order_id"] = {ScoreOrderIds[i]},
                                 !["time"] = {T(0, 600)},
                                 !["total_price"] = {Money(IF i = 1 THEN p ELSE 0)}]

InitScores ==
    /\ \E no \in 1..MaxUserOrders, p \in ScorePrices :
          raw = [NoTables EXCEPT
                    !["orders"] = {DataFrame(SampleOrders.cols,
                                             [i \in 1..no |-> ScoreOrderRow(i, p)])},
                    !["users"] = {SampleUsers}]
    /\ today \in ScoreRunDays
    /\ StartOfRun
    /\ files = NoOutputs
    /\ failures = 0
    /\ runs = 1
    /\ prev = {}

SpecScores == InitScores /\ [][NextRecency]_vars

-----------------------------------------------------------------------------
(* create_daily_business_metrics and create_coupon_performance on the same
   small order table *)

MaxCouponOrders == 2

\* what an order costs and what its coupon took off, in hundredths: no
\* discount, a coupon covering the whole price and, for the first order, a
\* tenth off
CouponAmounts(i) ==
    {<<100 * i, 0>>, <<0, 100 * i>>} \cup (IF i = 1 THEN {<<90, 10>>} ELSE {})

\* order i: with a coupon code or none, on one of two dates; the first order
\* may have another code, and may lack its order_id or a readable time
CouponOrderRows(i) ==
    {[SampleOrders.rows[1] EXCEPT !["order_id"] = id, !["time"] = {t},
                                  !["discount_coupon_code"] = code,
                                  !["total_price"] = {Money(a[1])},
                                  !["discount"] = {Money(a[2])}] :
        id \in IF i = 1 THEN {NaN, {OrderIds[i]}} ELSE {{OrderIds[i]}},
        t \in IF i = 1 THEN DailyTimes ELSE DailyTimes \ {BadTime},
        code \in IF i = 1 THEN {NaN, {"SAVE10"}, {"WELCOME"}} ELSE {NaN, {"SAVE10"}},
        a \in CouponAmounts(i)}

InitCoupons ==
    /\ \E no \in 0..MaxCouponOrders :
          \E orders \in TablesOf(SampleOrders.cols, CouponOrderRows, no) :
              raw = [NoTables EXCEPT !["orders"] = {orders},
                                     !["sessions"] = {SampleSessions}]
    /\ today = FirstRunDay
    /\ StartOfRun
    /\ files = NoOutputs
    /\ failures = 0
    /\ runs = 1
    /\ prev = {}

CallDailyBusinessMetrics ==
    /\ pc = "aggregate" /\ called = {}
    /\ Call("daily_business_metrics", create_daily_business_metrics(data))

CallCouponPerformance ==
    /\ pc = "aggregate" /\ called = {"daily_business_metrics"}
    /\ Call("coupon_performance", create_coupon_performance(data))

NextCoupons ==
    \/ LoadTables
    \/ CallDailyBusinessMetrics
    \/ CallCouponPerformance

SpecCoupons == InitCoupons /\ [][NextCoupons]_vars

-----------------------------------------------------------------------------
(* Failure handling of main() *)

\* C1: when session_table.csv or order_table.csv cannot be loaded, main()
\* stops after loading: no aggregator is called, no save is attempted and
\* none of the seven output files is written, whatever the other tables are.
C1_AbortsWithoutCoreTables ==
    (raw["sessions"] = {} \/ raw["orders"] = {}) =>
        /\ pc \in {"start", "aborted"}
        /\ called = {}
        /\ results = NoOutputs
        /\ attempts = <<>>
        /\ files = NoOutputs

\* a run aborted for want of the session table, every other table on disk
C1_AbortedRun ==
    /\ pc = "aborted"
    /\ raw["sessions"] = {}
    /\ \A t \in Tables \ {"sessions"} : raw[t] # {}

\* the tables each aggregator returns None without (the `is None` tests at
\* the head of each create_* function)
Mandatory ==
    [daily_business_metrics    |-> {"orders", "sessions"},
     session_attribution       |-> {"sessions"},
     session_funnel            |-> {"sessions"},
     product_performance_daily |-> {"order_items"},
     user_lifetime_metrics     |-> {"users", "orders"},
     page_engagement_metrics   |-> {"pageviews"},
     coupon_performance        |-> {"orders"}]

\* raw_data/ holds both core tables, and every table it holds has all its
\* columns
WellFormed ==
    /\ raw["sessions"] # {} /\ raw["orders"] # {}
    /\ \A t \in Tables : raw[t] \in {{}, {Sample[t]}}

lacks_input(a) == \E t \in Mandatory[a] : raw[t] = {}

\* C2: with sessions and orders present and every table on disk well-formed,
\* whichever optional tables are absent, main() never raises or aborts: it
\* stands before its next create_* call or its next save until PIPELINE
\* COMPLETE; an aggregator
\* returns None exactly when one of its mandatory inputs is absent, its save
\* is then skipped, and every other aggregator's table is non-empty and is
\* the content of its file once saved.
C2_OptionalTablesMayBeAbsent ==
    WellFormed =>
        /\ pc \notin {"raised", "aborted"}
        /\ pc = "aggregate" =>
              called # Outputs /\ called = FirstOutputs(Cardinality(called))
        /\ pc = "save" => Len(attempts) < Len(MainOrder)
        /\ \A a \in called : results[a] = {} <=> lacks_input(a)
        /\ \A a \in called : ~ lacks_input(a) => ~ save_skipped(results[a])
        /\ \A i \in 1..Len(attempts) :
              /\ attempts[i].outcome = "skipped" <=> lacks_input(attempts[i].file)
              /\ attempts[i].outcome = "saved" =>
                    files[attempts[i].file] = results[attempts[i].file]

\* a completed run without users, cart and clicks: the user table is skipped,
\* the product and page tables are saved
C2_CompleteWithoutOptional ==
    /\ WellFormed
    /\ pc = "complete"
    /\ raw["users"] = {} /\ raw["cart"] = {} /\ raw["clicks"] = {}
    /\ raw["order_items"] # {} /\ raw["pageviews"] # {}
    /\ attempts[5].outcome = "skipped"
    /\ attempts[4].outcome = "saved" /\ attempts[6].outcome = "saved"

\* C3: a loaded table that lacks a column an aggregator reads makes no
\* aggregator raise.
C3_NoRaiseOnMissingColumn ==
    pc # "raised"

\* C4: the save phase attempts the seven files in main()'s order, a failed
\* write does not end it: after a failure the next save can be taken, and the
\* run completes with all seven attempted.
C4_SavePhaseSurvivesWriteFailure ==
    /\ \A i \in 1..Len(attempts) : attempts[i].file = MainOrder[i]
    /\ attempts # <<>> => pc \in {"save", "complete"}
    /\ pc = "save" => Len(attempts) < Len(MainOrder) /\ ENABLED SaveToCsv
    /\ pc = "complete" => Len(attempts) = Len(MainOrder)

\* a completed save phase in which a write failed and a later one succeeded
C4_FailureThenSave ==
    /\ pc = "complete"
    /\ \E i \in 1..Len(attempts), j \in 1..Len(attempts) :
          i < j /\ attempts[i].outcome = "error" /\ attempts[j].outcome = "saved"

\* C7: after the aggregators have run, every loaded table has the columns and
\* cells it was loaded with.
C7_LoadedTablesUntouched ==
    pc \in {"aggregate", "save", "complete"} => data = load_all_raw_data(raw)

-----------------------------------------------------------------------------
(* Runs over time *)

\* C5: when a run has completed, each output file is either not there or
\* holds the table this run derived for it; none holds what an earlier run
\* wrote.
C5_OutputsRegenerated ==
    pc = "complete" =>
        \A f \in Outputs : files[f] = IF save_skipped(results[f]) THEN {} ELSE results[f]

-----------------------------------------------------------------------------
(* Order of the aggregations *)

main_outcome == main_calls(raw, today, Len(MainOrder))

same_as_main(m) ==
    ~ m.raised =>
        /\ pc # "raised"
        /\ \A a \in called : results[a] = m.results[a]

\* C8: in whatever order the create_* calls are made on the loaded tables,
\* each call made returns the table it returns in main()'s order, and no call
\* raises unless main()'s order raises.
C8_OrderIndependent ==
    pc \in {"aggregate", "save", "raised"} => same_as_main(main_outcome)

\* coupon_performance and page_engagement_metrics returned before any of the
\* five aggregators main() calls ahead of them
C8_LastCalledFirst ==
    /\ called = {"coupon_performance", "page_engagement_metrics"}
    /\ results["coupon_performance"] # {}
    /\ results["page_engagement_metrics"] # {}
    /\ \A t \in Tables : raw[t] # {}

-----------------------------------------------------------------------------
(* daily_business_metrics *)

daily_done == pc = "aggregate" /\ "daily_business_metrics" \in called

daily_rows == V(results["daily_business_metrics"]).rows

\* the date an order or session falls on, as the pipeline writes dates
date_of(r) == strftime(to_datetime(r["time"]))

\* the sum, in hundredths, of total_price over a set of order positions
RECURSIVE SumOfPrices(_, _)
SumOfPrices(rows, S) ==
    IF S = {} THEN 0
    ELSE LET i == CHOOSE j \in S : TRUE
         IN  V(rows[i]["total_price"])[1] + SumOfPrices(rows, S \ {i})

\* C9: for every date that occurs in the order table, daily_business_metrics
\* has exactly one row of that date, and its total_revenue is the sum of
\* total_price over exactly the orders whose time falls on that date.
C9_RevenueIsSumPerDate ==
    daily_done =>
        LET orders == V(raw["orders"]).rows
        IN  \A i \in 1..Len(orders) :
                notna(date_of(orders[i])) =>
                    LET on_date == {j \in 1..Len(orders) :
                                       date_of(orders[j]) = date_of(orders[i])}
                        hits == {k \in 1..Len(daily_rows) :
                                    daily_rows[k]["date"] = date_of(orders[i])}
                    IN  /\ Cardinality(hits) = 1
                        /\ \A k \in hits :
                              /\ notna(daily_rows[k]["total_revenue"])
                              /\ FEq(V(daily_rows[k]["total_revenue"]),
                                     Money(SumOfPrices(orders, on_date)))

\* two orders on one date and none on the other, which has a session
C9_TwoOrdersOneDate ==
    /\ daily_done
    /\ Len(daily_rows) = 2
    /\ LET orders == V(raw["orders"]).rows
       IN  /\ Len(orders) = 2
           /\ date_of(orders[1]) = date_of(orders[2])
           /\ notna(date_of(orders[1]))
           /\ orders[1]["total_price"] # orders[2]["total_price"]

\* C10: in every daily_business_metrics row conversion_rate is a finite number
\* >= 0, equal to total_orders / total_sessions * 100 rounded to 2 decimals
\* when the date has sessions (a date without orders counting 0 orders) and
\* to 0 when it has none.
C10_ConversionRateFinite ==
    daily_done =>
        \A k \in 1..Len(daily_rows) :
            LET r == daily_rows[k]
                no_sessions == isna(r["total_sessions"]) \/ r["total_sessions"] = {0}
            IN  /\ notna(r["conversion_rate"])
                /\ IsFinite(V(r["conversion_rate"]))
                /\ V(r["conversion_rate"])[1] >= 0
                /\ no_sessions => FEq(V(r["conversion_rate"]), Flt(0))
                /\ ~ no_sessions =>
                      r["conversion_rate"] =
                          round2(Times100(TrueDiv(AsFlt(fillna(r["total_orders"], 0)),
                                                  AsFlt(r["total_sessions"]))))

\* the dates, as written, of the rows of a stored table
dates_in(t) ==
    {date_of(V(raw[t]).rows[i]) : i \in 1..Len(V(raw[t]).rows)} \ {NaN}

\* C11: daily_business_metrics has exactly one row for each date in the union
\* of the order dates and the session dates, and no other row.
C11_OneRowPerDate ==
    daily_done =>
        /\ {daily_rows[k]["date"] : k \in 1..Len(daily_rows)} =
              dates_in("orders") \cup dates_in("sessions")
        /\ \A j, k \in 1..Len(daily_rows) :
              daily_rows[j]["date"] = daily_rows[k]["date"] => j = k

\* one date with sessions and no order, another with orders and no session
C11_DatesOfOneKind ==
    /\ daily_done
    /\ dates_in("orders") # {} /\ dates_in("sessions") # {}
    /\ dates_in("orders") \cap dates_in("sessions") = {}
    /\ Len(V(raw["orders"]).rows) = 2
    /\ Len(daily_rows) = 2

\* the user table is stored with has_purchase_last_year
flag_stored ==
    raw["users"] # {} /\ "has_purchase_last_year" \in V(raw["users"]).cols

\* the distinct users with an order on the date and the flag in the user table
customers_on(date, flag) ==
    {u \in {V(raw["orders"]).rows[i]["user_id"] :
                i \in {j \in 1..Len(V(raw["orders"]).rows) :
                          date_of(V(raw["orders"]).rows[j]) = date}} :
        \E k \in 1..Len(V(raw["users"]).rows) :
            /\ V(raw["users"]).rows[k]["user_id"] = u
            /\ V(raw["users"]).rows[k]["has_purchase_last_year"] = {flag}}

customer_columns_iff_flag ==
    /\ "new_customers" \in V(results["daily_business_metrics"]).cols <=> flag_stored
    /\ "repeat_customers" \in V(results["daily_business_metrics"]).cols <=> flag_stored

\* C12 as stated: the two columns are there iff the user table carries the
\* flag, and each row's new_customers (repeat_customers) is the number of
\* distinct users ordering on its date whose flag is 0 (1).
C12_CustomerCounts ==
    daily_done =>
        /\ customer_columns_iff_flag
        /\ flag_stored =>
              \A k \in 1..Len(daily_rows) :
                  /\ daily_rows[k]["new_customers"] =
                        {Cardinality(customers_on(daily_rows[k]["date"], 0))}
                  /\ daily_rows[k]["repeat_customers"] =
                        {Cardinality(customers_on(daily_rows[k]["date"], 1))}

\* what a count cell holds: null when nobody is counted
count_or_null(n) == IF n = 0 THEN NaN ELSE {n}

\* C12: the two columns are there iff the user table carries the flag; a
\* row's new_customers (repeat_customers) is the number of distinct users
\* ordering on its date whose flag is 0 (1) when there is one, and null when
\* there is none.
C12_CustomerCountsOrNull ==
    daily_done =>
        /\ customer_columns_iff_flag
        /\ flag_stored =>
              \A k \in 1..Len(daily_rows) :
                  /\ daily_rows[k]["new_customers"] =
                        count_or_null(Cardinality(customers_on(daily_rows[k]["date"], 0)))
                  /\ daily_rows[k]["repeat_customers"] =
                        count_or_null(Cardinality(customers_on(daily_rows[k]["date"], 1)))

\* a new and a repeat customer ordering on one date
C12_NewAndRepeat ==
    /\ daily_done
    /\ flag_stored
    /\ \E k \in 1..Len(daily_rows) :
          daily_rows[k]["new_customers"] = {1} /\ daily_rows[k]["repeat_customers"] = {1}

-----------------------------------------------------------------------------
(* session_attribution *)

attribution_done == pc = "aggregate" /\ "session_attribution" \in called

attribution_rows == V(results["session_attribution"]).rows

stored_orders == V(raw["orders"]).rows

stored_sessions == V(raw["sessions"]).rows

\* an order references a session id when its session_id cell equals it
references(sid) ==
    \E i \in 1..Len(stored_orders) : stored_orders[i]["session_id"] = sid

\* C13: in every row of session_attribution, converted is 1 if and only if
\* some order references the row's session_id; otherwise converted is 0 and
\* revenue is 0.
C13_ConvertedIffReferenced ==
    attribution_done =>
        \A k \in 1..Len(attribution_rows) :
            LET r == attribution_rows[k]
            IN  /\ r["converted"] = {1} <=> references(r["session_id"])
                /\ ~ references(r["session_id"]) =>
                      r["converted"] = {0} /\ FEq(V(r["revenue"]), Flt(0))

\* the orders the join gives session s, in table order: those whose
\* session_id cell equals the session's
joined_orders(s) ==
    SelectSeq([i \in 1..Len(stored_orders) |-> i],
              LAMBDA i : stored_orders[i]["session_id"] = stored_sessions[s]["session_id"])

rows_of_session(s) == IF joined_orders(s) = <<>> THEN 1 ELSE Len(joined_orders(s))

RECURSIVE rows_before(_)
rows_before(s) == IF s = 1 THEN 0 ELSE rows_before(s - 1) + rows_of_session(s - 1)

C15_UtmFilled ==
    attribution_done =>
        /\ Len(attribution_rows) = rows_before(Len(stored_sessions) + 1)
        /\ \A s \in 1..Len(stored_sessions) :
              \A j \in 1..rows_of_session(s) :
                  \A c \in {"utm_source", "utm_medium", "utm_campaign"} :
                      LET cell == attribution_rows[rows_before(s) + j][c]
                      IN  /\ notna(cell)
                          /\ cell = IF isna(stored_sessions[s][c]) THEN {"direct"}
                                    ELSE stored_sessions[s][c]

\* an untagged session and a tagged one
C15_DirectAndTagged ==
    /\ attribution_done
    /\ Len(attribution_rows) = 2
    /\ attribution_rows[1]["utm_medium"] = {"direct"}
    /\ attribution_rows[2]["utm_medium"] = {"cpc"}

\* C16: create_session_attribution called with sessions and without an order
\* table returns one row per session, converted 0 and revenue 0.
C16_AttributionWithoutOrders ==
    (raw["orders"] = {} /\ pc # "start") =>
        /\ pc # "raised"
        /\ "session_attribution" \in called =>
              /\ results["session_attribution"] # {}
              /\ Len(attribution_rows) = Len(stored_sessions)
              /\ \A k \in 1..Len(attribution_rows) :
                    /\ attribution_rows[k]["converted"] = {0}
                    /\ attribution_rows[k]["revenue"] = {Money(0)}

-----------------------------------------------------------------------------
(* session_funnel *)

funnel_done == pc = "aggregate" /\ "session_funnel" \in called

funnel_rows == V(results["session_funnel"]).rows

\* the rows of a stored table (none when it is absent)
stored_rows(t) == IF raw[t] = {} THEN {} ELSE RowSet(V(raw[t]))

\* the session id occurs in table t
occurs_in(t, sid) == \E r \in stored_rows(t) : r["session_id"] = sid

occurs_in_product_views(sid) ==
    \E r \in stored_rows("pageviews") :
        r["session_id"] = sid /\ contains_product(r["path"])

flag(b) == IF b THEN {1} ELSE {0}

\* C17: session_funnel has one row per session with had_pageview = 1, and
\* each other flag is a membership test of its own: had_product_view for the
\* pageviews of a '/product/' path, had_add_to_cart for the cart table,
\* had_order for the order table.
C17_FlagsAreMemberships ==
    funnel_done =>
        /\ Len(funnel_rows) = Len(stored_sessions)
        /\ \A k \in 1..Len(funnel_rows) :
              LET r == funnel_rows[k]
                  sid == stored_sessions[k]["session_id"]
              IN  /\ r["session_id"] = sid
                  /\ r["had_pageview"] = {1}
                  /\ r["had_product_view"] = flag(occurs_in_product_views(sid))
                  /\ r["had_add_to_cart"] = flag(occurs_in("cart", sid))
                  /\ r["had_order"] = flag(occurs_in("orders", sid))

\* a session that ordered without a cart add and without a product view,
\* while the cart table holds another session's cart add
C17_OrderWithoutCartAdd ==
    /\ funnel_done
    /\ stored_rows("cart") # {}
    /\ \E k \in 1..Len(funnel_rows) :
          /\ funnel_rows[k]["had_order"] = {1}
          /\ funnel_rows[k]["had_add_to_cart"] = {0}
          /\ funnel_rows[k]["had_product_view"] = {0}

\* the times that can be read of the events of table t in session sid
event_times(t, sid) ==
    {V(r["time"]) : r \in {x \in stored_rows(t) :
                               x["session_id"] = sid /\ x["time"] # {BadTime}}}

Earliest(times) == CHOOSE x \in times : \A y \in times : x <= y

\* minutes from the start of session k to its earliest event of table t, as
\* an exact fraction; null when there is nothing to subtract
minutes_to_event(t, k) ==
    LET s == stored_sessions[k]
        times == event_times(t, s["session_id"])
    IN  IF isna(s["session_id"]) \/ s["time"] = {BadTime} \/ times = {}
        THEN NaN
        ELSE {<<Earliest(times) - V(s["time"]), 60>>}

time_columns == {<<"cart", "time_to_cart_minutes">>,
                 <<"orders", "time_to_order_minutes">>}

\* C18 as stated: the time is null for a session without the event, and for
\* a session with one it equals the earliest event's time minus the session
\* start, in minutes.
C18_TimeToEvent ==
    funnel_done =>
        \A k \in 1..Len(funnel_rows) : \A tc \in time_columns :
            LET c == funnel_rows[k][tc[2]]
                m == minutes_to_event(tc[1], k)
            IN  /\ ~ occurs_in(tc[1], stored_sessions[k]["session_id"]) => isna(c)
                /\ notna(m) => notna(c) /\ FEq(V(c), V(m))

\* C18: the time is null for a session without the event (and where the
\* session has no id, or no time can be read); otherwise it is the earliest
\* event's time minus the session start in minutes, rounded to two decimals:
\* 0 for no difference, negative for an event before the start.
C18_TimeToEventRounded ==
    funnel_done =>
        \A k \in 1..Len(funnel_rows) : \A tc \in time_columns :
            LET c == funnel_rows[k][tc[2]]
                m == minutes_to_event(tc[1], k)
            IN  /\ ~ occurs_in(tc[1], stored_sessions[k]["session_id"]) => isna(c)
                /\ c = round2(m)
                /\ notna(m) =>
                      /\ V(m)[1] = 0 => c = {Money(0)}
                      /\ V(m)[1] < 0 => V(c)[1] < 0

\* a cart add before the session start and an order at the session start,
\* next to a session with neither
C18_NegativeZeroAndNull ==
    /\ funnel_done
    /\ Len(funnel_rows) = 2
    /\ funnel_rows[1]["time_to_cart_minutes"] = {<<-17, 100>>}
    /\ funnel_rows[1]["time_to_order_minutes"] = {Money(0)}
    /\ isna(funnel_rows[2]["time_to_cart_minutes"])
    /\ isna(funnel_rows[2]["time_to_order_minutes"])

-----------------------------------------------------------------------------
(* product_performance_daily *)

product_rows ==
    IF results["product_performance_daily"] = {} THEN <<>>
    ELSE V(results["product_performance_daily"]).rows

\* C19: every row of product_performance_daily with times_added_to_cart = 0
\* has cart_to_purchase_rate exactly 0, with the cart table absent or
\* present; every other row has times_purchased / times_added_to_cart * 100
\* (to two decimals).
C19_ZeroCartAddsZeroRate ==
    \A k \in 1..Len(product_rows) :
        LET r == product_rows[k]
            rate == r["cart_to_purchase_rate"]
        IN  /\ notna(rate)
            /\ IF r["times_added_to_cart"] = {0}
               THEN IsFinite(V(rate)) /\ FEq(V(rate), Flt(0))
               ELSE rate = round2({<<100 * V(r["times_purchased"]),
                                     V(r["times_added_to_cart"])>>})

-----------------------------------------------------------------------------
(* user_lifetime_metrics *)

user_rows ==
    IF results["user_lifetime_metrics"] = {} THEN <<>>
    ELSE V(results["user_lifetime_metrics"]).rows

recency_of(days) ==
    IF days <= 30 THEN 5
    ELSE IF days <= 90 THEN 4
    ELSE IF days <= 180 THEN 3
    ELSE IF days <= 365 THEN 2
    ELSE 1

\* C20: in every user row rfm_recency_score follows days_since_last_order,
\* zero and negative values included: up to 30 days 5, 31-90 4, 91-180 3,
\* 181-365 2, more than 365 1.
C20_RecencyBoundaries ==
    \A k \in 1..Len(user_rows) :
        /\ notna(user_rows[k]["days_since_last_order"])
        /\ user_rows[k]["rfm_recency_score"] =
               {recency_of(V(user_rows[k]["days_since_last_order"]))}


\* the orders the order table holds for a user, by distinct order_id
orders_of(u) ==
    Cardinality({r["order_id"] : r \in {x \in stored_rows("orders") :
                                            x["user_id"] = u /\ notna(x["order_id"])}})

frequency_of(n) ==
    IF n = 1 THEN 1
    ELSE IF n = 2 THEN 2
    ELSE IF n <= 4 THEN 3
    ELSE IF n <= 9 THEN 4
    ELSE 5

\* C21: in every user row total_orders is the number of distinct order_ids
\* of the user and rfm_frequency_score follows it: 1 order 1, 2 orders 2,
\* 3-4 orders 3, 5-9 orders 4, 10 or more 5.
C21_FrequencyBoundaries ==
    \A k \in 1..Len(user_rows) :
        LET n == V(user_rows[k]["total_orders"])
        IN  /\ n = orders_of(user_rows[k]["user_id"])
            /\ n >= 1 => user_rows[k]["rfm_frequency_score"] = {frequency_of(n)}

\* a user with ten orders
C21_TenOrders ==
    \E k \in 1..Len(user_rows) :
        /\ user_rows[k]["total_orders"] = {10}
        /\ user_rows[k]["rfm_frequency_score"] = {5}

\* the monetary buckets with inclusive lower bounds, on an amount in
\* hundredths
monetary_of(hundredths) ==
    IF hundredths < 5000 THEN 1
    ELSE IF hundredths < 20000 THEN 2
    ELSE IF hundredths < 50000 THEN 3
    ELSE IF hundredths < 100000 THEN 4
    ELSE 5

\* C22: in every user row rfm_monetary_score follows total_revenue with
\* inclusive lower bounds: below 50 gives 1, 50-199 2, 200-499 3, 500-999 4,
\* 1000 and above 5.
C22_MonetaryBoundaries ==
    \A k \in 1..Len(user_rows) :
        LET revenue == V(user_rows[k]["total_revenue"])
        IN  /\ revenue[2] = 100
            /\ user_rows[k]["rfm_monetary_score"] = {monetary_of(revenue[1])}

\* the ordered table of segment rules
segment_of(r, f, m) ==
    CASE r >= 4 /\ f >= 4 /\ m >= 4 -> "Champion"
      [] OTHER ->
    CASE r >= 3 /\ f >= 4 -> "Loyal Customer"
      [] OTHER ->
    CASE r >= 3 /\ f >= 2 -> "Potential Loyalist"
      [] OTHER ->
    CASE r <= 2 /\ f >= 3 -> "At Risk"
      [] OTHER ->
    CASE r = 1 /\ f <= 2 -> "Lost"
      [] OTHER ->
    CASE r <= 2 /\ f <= 2 -> "Needs Attention"
      [] OTHER ->
    CASE f <= 2 -> "New Customer"
      [] OTHER -> "Regular"

Triples == (1..5) \X (1..5) \X (1..5)

\* the score triple of a user row
triple(row) == <<V(row["rfm_recency_score"]), V(row["rfm_frequency_score"]),
                 V(row["rfm_monetary_score"])>>

documented_segment(t) ==
    IF t \in {<<5, 5, 5>>, <<5, 5, 4>>, <<5, 4, 4>>, <<5, 4, 5>>} THEN {"Champion"}
    ELSE IF t \in {<<4, 4, 4>>, <<4, 3, 4>>, <<4, 4, 3>>} THEN {"Loyal Customer"}
    ELSE IF t \in {<<1, 1, 1>>, <<1, 1, 2>>, <<1, 2, 1>>, <<1, 2, 2>>} THEN {"Lost"}
    ELSE IF t \in {<<2, 1, 1>>, <<2, 1, 2>>, <<2, 2, 1>>, <<2, 2, 2>>} THEN {"At Risk"}
    ELSE {}

\* C24: the scores the documentation lists get the segment it lists: 555,
\* 554, 544, 545 Champion; 444, 434, 443 Loyal; 111, 112, 121, 122 Lost;
\* 211, 212, 221, 222 At Risk.
C24_DocumentedSegments ==
    \A k \in 1..Len(user_rows) :
        documented_segment(triple(user_rows[k])) # {} =>
            user_rows[k]["rfm_segment"] = documented_segment(triple(user_rows[k]))

\* C26: no row of user_lifetime_metrics has the segment 'Regular': the
\* labels are the other seven.
C26_RegularUnreachable ==
    /\ \A t \in Triples : assign_segment(t) # "Regular"
    /\ {assign_segment(t) : t \in Triples} =
          {"Champion", "Loyal Customer", "Potential Loyalist", "At Risk", "Lost",
           "Needs Attention", "New Customer"}
    /\ \A k \in 1..Len(user_rows) :
          /\ triple(user_rows[k]) \in Triples
          /\ user_rows[k]["rfm_segment"] # {"Regular"}

\* a recent customer of three orders, neither new nor loyal
C26_ThreeOrdersRecent ==
    \E k \in 1..Len(user_rows) :
        /\ triple(user_rows[k]) = <<5, 3, 1>>
        /\ user_rows[k]["rfm_segment"] = {"Potential Loyalist"}

-----------------------------------------------------------------------------
(* coupon_performance *)

coupon_done == pc = "aggregate" /\ "coupon_performance" \in called

coupon_rows == V(results["coupon_performance"]).rows

\* the positions of the coupon_performance rows of a date
coupon_rows_on(date) == {k \in 1..Len(coupon_rows) : coupon_rows[k]["date"] = date}

\* the sum of an integer column over a set of coupon_performance rows
RECURSIVE SumOfCounts(_, _)
SumOfCounts(c, S) ==
    IF S = {} THEN 0
    ELSE LET k == CHOOSE j \in S : TRUE
         IN  V(coupon_rows[k][c]) + SumOfCounts(c, S \ {k})

\* the sum, in hundredths, of a money column over a set of coupon_performance
\* rows
RECURSIVE SumOfMoney(_, _)
SumOfMoney(c, S) ==
    IF S = {} THEN 0
    ELSE LET k == CHOOSE j \in S : TRUE
         IN  V(coupon_rows[k][c])[1] + SumOfMoney(c, S \ {k})

\* C25: no order is dropped for lacking a coupon: an order with a readable
\* date and no coupon code is counted in the (date, 'NO_COUPON') row, and for
\* each date the usage_count values of all its rows add up to the number of
\* orders on that date.
C25_NoCouponOrdersCounted ==
    coupon_done =>
        \A i \in 1..Len(stored_orders) :
            notna(date_of(stored_orders[i])) =>
                LET date == date_of(stored_orders[i])
                    on_date == {j \in 1..Len(stored_orders) :
                                   date_of(stored_orders[j]) = date}
                    without == {j \in on_date :
                                   isna(stored_orders[j]["discount_coupon_code"])}
                IN  /\ SumOfCounts("usage_count", coupon_rows_on(date))
                           = Cardinality(on_date)
                    /\ without # {} =>
                          \E k \in coupon_rows_on(date) :
                              /\ coupon_rows[k]["discount_coupon_code"] = {"NO_COUPON"}
                              /\ coupon_rows[k]["usage_count"] = {Cardinality(without)}

\* C29: for every date with an order, total_revenue of coupon_performance
\* summed over all coupon codes of the date, NO_COUPON included, is
\* daily_business_metrics.total_revenue of that date.
C29_CouponRevenueIsDailyRevenue ==
    (coupon_done /\ "daily_business_metrics" \in called) =>
        /\ \A k \in 1..Len(coupon_rows) :
              \E n \in 1..Len(daily_rows) :
                  daily_rows[n]["date"] = coupon_rows[k]["date"]
        /\ \A n \in 1..Len(daily_rows) :
              IF isna(daily_rows[n]["total_revenue"])
              THEN coupon_rows_on(daily_rows[n]["date"]) = {}
              ELSE /\ coupon_rows_on(daily_rows[n]["date"]) # {}
                   /\ FEq(V(daily_rows[n]["total_revenue"]),
                          Money(SumOfMoney("total_revenue",
                                           coupon_rows_on(daily_rows[n]["date"]))))

\* two orders of one date under different codes, one of them without coupon
C29_TwoCodesOneDate ==
    /\ coupon_done
    /\ "daily_business_metrics" \in called
    /\ Len(coupon_rows) = 2
    /\ coupon_rows[1]["date"] = coupon_rows[2]["date"]
    /\ \E k \in 1..2 : coupon_rows[k]["discount_coupon_code"] = {"NO_COUPON"}
    /\ \A k \in 1..2 : V(coupon_rows[k]["total_revenue"])[1] > 0

\* C30: discount_percentage is a finite number on every row of
\* coupon_performance, equal to total_discount_given / total_revenue * 100
\* (to two decimals), also where total_revenue is 0.
C30_DiscountPercentageFinite ==
    coupon_done =>
        \A k \in 1..Len(coupon_rows) :
            LET r == coupon_rows[k]
            IN  /\ notna(r["discount_percentage"])
                /\ IsFinite(V(r["discount_percentage"]))
                /\ V(r["total_revenue"])[1] # 0 =>
                      r["discount_percentage"] =
                          round2({<<100 * V(r["total_discount_given"])[1],
                                    V(r["total_revenue"])[1]>>})

-----------------------------------------------------------------------------
(* Phases of main() *)

\* C27: main() loads, then runs all seven aggregators, then saves: a file is
\* written only when every aggregator has returned, so a run in which an
\* aggregator raises writes none of the seven files, whatever tables it had
\* computed by then.
C27_NoFileBeforeAllAggregated ==
    /\ pc \in {"start", "aggregate", "raised", "aborted"} =>
          files = NoOutputs /\ attempts = <<>>
    /\ pc \in {"save", "complete"} => called = Outputs
    /\ (\E f \in Outputs : files[f] # {}) =>
          called = Outputs /\ pc \in {"save", "complete"}

\* an aggregator raised after other tables had been computed
C27_RaisedAfterTables ==
    /\ pc = "raised"
    /\ \E a \in called : results[a] # {} /\ ~ save_skipped(results[a])
    /\ files = NoOutputs

=============================================================================
